---- MODULE Spec2Model ----
(***************************************************************************)
(* HydroGardenApp, local-first synchronisation layer.                      *)
(*                                                                         *)
(* The Sync Engine (src/src/services/enhancedSyncService.js) as a state    *)
(* machine: the persisted queue and conflict store (localStorage), the     *)
(* in-memory copy a processSyncQueue drain works on, the syncData calls    *)
(* that await the network, and the remote authority, whose answers are     *)
(* the environment's choice.  Every handler runs to its next network or    *)
(* timer await as one step (single event loop).                            *)
(***************************************************************************)
EXTENDS Integers, Sequences, FiniteSets, TLC

(***************************************************************************)
(* Bounds of the model.                                                    *)
(***************************************************************************)
\* number of syncData calls in a behaviour
MaxMutations == 2
\* number of plants the Data Manager creates
MaxPlants == 2
\* syncData calls and adverse events in a behaviour that also creates plants
MaxPlantMutations == 1
MaxPlantAdverse == 1
\* calls of the Data Manager in a behaviour of the Data Manager alone, and how
\* many of them run at the same time
MaxStoreCalls == 2
MaxRunning == 2
\* writes the storage refuses
MaxFaults == 1
\* createBackup calls, restoreFromBackup calls, damages of the stored backups
\* and the user's changes of plants in a behaviour that restores a backup
MaxSnapshots == 2
MaxRestores == 1
MaxDamage == 1
MaxBackupMutations == 1
\* createBackup calls in a behaviour that fills the backup list beyond its cap
MaxBackupCalls == 5

\* the resolveConflict calls, syncData calls and adverse events of SpecResolve
MaxResolves == 1
MaxResolveMutations == 2
MaxResolveAdverse == 2

\* the retry counts calculateRetryDelay is called with; the service itself
\* stops at maxRetries
MaxRetryCount == 10

\* SpecAuto: the timestamps of the local item and of the server record
MaxTime == 2

\* SpecFilter: the dates of the events and of the filters
MaxDate == 3

\* SpecFresh: the plants stored, the queries and the writes between them
MaxFreshPlants == 2
MaxFreshQueries == 2
MaxFreshWrites == 1

\* SpecEvents: the events stored and in the backup, the restores of the backup
MaxEvents == 2
MaxEventRestores == 2

\* SpecPage: the plants stored, the limits of its one query
MaxItems == 25
MaxLimit == 10

\* SpecQuery: the plants stored, the limits and offsets, the queries, the
\* getPlants calls of other callers
MaxQueryPlants == 3
MaxQueryLimit == 2
MaxQueryOffset == 1
MaxQueries == 1
MaxQueryReads == 1
\* number of adverse events of the environment: answers other than success
\* while online, and offline events
MaxAdverse == 3
\* syncData calls awaiting the network at the same time
MaxInflight == 1
\* syncData calls and adverse events in a behaviour that fills the queue to its cap
MaxCapMutations == 4
MaxCapAdverse == 1
\* this.maxQueueSize, 500 in the source, scaled down so that the cap is reached
maxQueueSize == 3
\* this.maxBackups, 10 in the source, scaled down so that the cleanup runs
maxBackups == 3
\* this.batchSize, 10 in the source, scaled down so that a drain has several batches
batchSize == 2

(***************************************************************************)
(* Program constants.                                                      *)
(***************************************************************************)
maxRetries == 3
retryDelay == 1000
maxDelay == 30000

PlantIds == 1..MaxPlants

\* The (entityType, data.id, operation) triples of the syncData calls.  The
\* code treats triples alike, so the n-th call draws from the first n.
Triples ==
  <<[entityType |-> "Plant", dataId |-> 1, operation |-> "upsert"],
    [entityType |-> "Plant", dataId |-> 1, operation |-> "delete"],
    [entityType |-> "Plant", dataId |-> 2, operation |-> "upsert"],
    [entityType |-> "Plant", dataId |-> 2, operation |-> "delete"]>>

AutoResolvable == {"timestamp_conflict", "field_conflict", "deletion_conflict"}

NoItem ==
  [id |-> 0, entityType |-> "none", dataId |-> 0, operation |-> "none",
   data |-> "none", timestamp |-> 0, retryCount |-> 0, processed |-> FALSE]

Min(a, b) == IF a < b THEN a ELSE b

RECURSIVE Pow2(_)
Pow2(n) == IF n = 0 THEN 1 ELSE 2 * Pow2(n - 1)

Reverse(s) == [i \in 1..Len(s) |-> s[Len(s) + 1 - i]]

ButLast(s) == SubSeq(s, 1, Len(s) - 1)

Ids(q) == {q[i].id : i \in 1..Len(q)}

\* addToQueue's duplicate test: same entity and operation
SameTriple(a, b) ==
  /\ a.entityType = b.entityType
  /\ a.dataId = b.dataId
  /\ a.operation = b.operation

\* a cap that keeps the head of the queue and drops what was pushed last
AddToQueue_KeepsHead(q, syncItem) ==
  LET filtered == SelectSeq(q, LAMBDA item : ~SameTriple(item, syncItem))
      pushed == Append(filtered, syncItem)
  IN  IF Len(pushed) > maxQueueSize
      THEN SubSeq(pushed, 1, maxQueueSize)
      ELSE pushed

\* addToQueue: drop the queued items of the same triple, push, enforce the cap
AddToQueue(q, syncItem) ==
  LET filtered == SelectSeq(q, LAMBDA item : ~SameTriple(item, syncItem))
      pushed == Append(filtered, syncItem)
  IN  IF Len(pushed) > maxQueueSize
      THEN SubSeq(pushed, Len(pushed) - maxQueueSize + 1, Len(pushed))
      ELSE pushed

\* addToConflicts(conflict): one parameter, pushed as it is
AddToConflicts(cs, conflict) == Append(cs, conflict)

\* what addToConflicts(syncItem, 'max_retries_exceeded') hands to the one
\* parameter of addToConflicts: the sync item itself
StoredSyncItem(syncItem) == [shape |-> "syncItem", item |-> syncItem]

\* a backoff without the cap
calculateRetryDelay_NoCap(retryCount) ==
  IF retryCount = 0 THEN 0 ELSE retryDelay * Pow2(retryCount - 1)

\* calculateRetryDelay
calculateRetryDelay(retryCount) ==
  IF retryCount = 0 THEN 0 ELSE Min(retryDelay * Pow2(retryCount - 1), maxDelay)

\* queue.sort((a, b) => new Date(a.timestamp) - new Date(b.timestamp)): a stable
\* sort, here by insertion
RECURSIVE SortByTimestamp(_)
SortByTimestamp(q) ==
  IF Len(q) <= 1 THEN q
  ELSE LET rest == SortByTimestamp(ButLast(q))
           x == q[Len(q)]
           k == Cardinality({i \in 1..Len(rest) : rest[i].timestamp <= x.timestamp})
       IN  SubSeq(rest, 1, k) \o <<x>> \o SubSeq(rest, k + 1, Len(rest))

\* mergeConflictingData: the server record with the local notes, status and
\* name, and the local updatedAt; payloads are abstract here
mergeConflictingData(localData, serverData) == "merged"

\* the fields of a plant's data the merge reads: notes, status and name are
\* the localFields of the code, image stands for every other field; a field
\* the data does not have is "undefined" (-1 for updatedAt)
LocalFields == {"notes", "status", "name"}

\* a merge that keeps the server's updatedAt
mergeConflictingFields_KeepsServerTime(localData, serverData) ==
  [f \in DOMAIN serverData |->
     IF f \in LocalFields /\ localData[f] # "undefined" /\ localData[f] # serverData[f]
     THEN localData[f] ELSE serverData[f]]

\* mergeConflictingData field by field: {...serverData}, the local value
\* of a localField that is defined and differs, the local updatedAt
mergeConflictingFields(localData, serverData) ==
  [f \in DOMAIN serverData |->
     IF f = "updatedAt" THEN localData.updatedAt
     ELSE IF f \in LocalFields /\ localData[f] # "undefined" /\ localData[f] # serverData[f]
     THEN localData[f] ELSE serverData[f]]

\* a last-write-wins that gives equal timestamps to the local data
attemptAutoResolution_TiesToLocal(conflict) ==
  IF conflict.conflictType = "timestamp_conflict"
  THEN [resolved |-> TRUE,
        data |-> IF conflict.localItem.timestamp >= conflict.serverData.updatedAt
                 THEN conflict.localItem.data
                 ELSE conflict.serverData.payload]
  ELSE [resolved |-> conflict.conflictType \in AutoResolvable, data |-> "none"]

\* a resolution that answers an unknown conflict type with the local data
attemptAutoResolution_GuessesLocal(conflict) ==
  IF conflict.conflictType = "field_conflict"
  THEN [resolved |-> TRUE,
        data |-> mergeConflictingData(conflict.localItem.data, conflict.serverData)]
  ELSE [resolved |-> TRUE, data |-> conflict.localItem.data]

\* attemptAutoResolution
attemptAutoResolution(conflict) ==
  CASE conflict.conflictType = "timestamp_conflict" ->
         [resolved |-> TRUE,
          data |-> IF conflict.localItem.timestamp > conflict.serverData.updatedAt
                   THEN conflict.localItem.data
                   ELSE conflict.serverData.payload]
    [] conflict.conflictType = "field_conflict" ->
         [resolved |-> TRUE,
          data |-> mergeConflictingData(conflict.localItem.data, conflict.serverData)]
    [] conflict.conflictType = "deletion_conflict" ->
         [resolved |-> TRUE, data |-> conflict.localItem.data]
    [] OTHER -> [resolved |-> FALSE, data |-> "none"]

VARIABLES
  isOnline,        \* this.isOnline
  syncInProgress,  \* this.syncInProgress
  queue,           \* localStorage enhanced_sync_queue
  conflicts,       \* localStorage sync_conflicts
  clock,           \* the wall clock new Date() reads
  nextId,          \* the next sync id
  callsLeft,       \* syncData calls the environment has left
  calls,           \* the syncData calls, by sync id
  drain,           \* the running processSyncQueue: its queue copy and batch
  adverse,         \* adverse events the environment has left
  plants,          \* the stored plants collection (IndexedDB store or localStorage)
  dm,              \* the Data Manager: mode, cache, listeners, its calls
  bm,              \* the Backup Manager: localStorage hydro_backups, its calls
  qe,              \* the Query Engine: its cache, its calls
  probe,           \* a call of a pure function under study: its arguments and results
  resolving,       \* the resolveConflict call of the user
  hist             \* history of the run, read by the properties only

vars ==
  <<isOnline, syncInProgress, queue, conflicts, clock, nextId, callsLeft, calls,
    drain, adverse, plants, dm, bm, qe, probe, resolving, hist>>

(***************************************************************************)
(* The persisted stores and the history, threaded through one handler run. *)
(***************************************************************************)
Store == [queue |-> queue, conflicts |-> conflicts, hist |-> hist]

\* addToQueue on the store; the history notes whom the cap evicted and whom
\* another mutation of the same triple replaced
Enqueue(S, syncItem) ==
  LET after == AddToQueue(S.queue, syncItem)
      replaced == {S.queue[i].id : i \in {j \in 1..Len(S.queue) :
                      SameTriple(S.queue[j], syncItem)}}
  IN  [S EXCEPT !.queue = after,
                !.hist.superseded = @ \cup (replaced \ {syncItem.id}),
                !.hist.evicted =
                   @ \cup (((Ids(S.queue) \ replaced) \cup {syncItem.id}) \ Ids(after))]

\* The remote's answers.  Offline the request fails; online the remote
\* accepts, or (an adverse event) fails or reports a conflict.
ServerData(u) == [payload |-> "server", updatedAt |-> u]

\* the conflicts the remote of the model reports: one the code resolves by
\* itself and one it cannot
ReportedTypes == {"field_conflict", "version_conflict"}

ConflictAnswers ==
  {[kind |-> "conflict", conflictType |-> t, serverData |-> ServerData(clock)] :
      t \in ReportedTypes}

SuccessAnswer == [kind |-> "success"]

ErrorAnswer == [kind |-> "error"]

Answers ==
  IF ~isOnline THEN {ErrorAnswer}
  ELSE {SuccessAnswer} \cup (IF adverse > 0 THEN {ErrorAnswer} \cup ConflictAnswers ELSE {})

AdverseAfter(r) == IF isOnline /\ r.kind # "success" THEN adverse - 1 ELSE adverse

\* a catch block that stamps the item anew
Failed_NewTimestamp(syncItem) ==
  [syncItem EXCEPT !.retryCount = @ + 1, !.timestamp = @ + 1]

\* the catch block of syncSingleItem on its item: retryCount + 1 (and
\* lastAttempt, which the model does not keep)
Failed(syncItem) == [syncItem EXCEPT !.retryCount = @ + 1]

(***************************************************************************)
(* syncSingleItem from the arrival of the answer to its request, with the  *)
(* handleConflict frames that wait for it.  ctx.top is the object the      *)
(* caller holds, ctx.cur the object whose request was answered (top, or    *)
(* the resolved copy handleConflict made), ctx.stack the conflicts of the  *)
(* handleConflict frames, outermost first.                                 *)
(***************************************************************************)
HandleResponse(ctx, r, before, now) ==
  LET nested == ctx.stack # <<>>
      \* the history notes the item as the request carried it
      S == [before EXCEPT !.hist.attempted = @ \cup {ctx.cur}]
  IN
  CASE r.kind = "success" ->
         \* the innermost handleConflict returns; every outer one sees
         \* syncSingleItem answer false and stores its conflict
         [ctx |-> ctx, done |-> TRUE, ok |-> ~nested,
          S |-> [S EXCEPT
                   !.conflicts = @ \o Reverse(ButLast(ctx.stack)),
                   !.hist.delivered = @ \cup {ctx.cur.id},
                   !.hist.mergedAccepted =
                      IF Len(ctx.stack) = 1 /\ ctx.stack[1].conflictType = "field_conflict"
                      THEN @ \cup {ctx.cur.id} ELSE @]]
    [] r.kind = "error" ->
         LET failed == Failed(ctx.cur)
             S1 == IF failed.retryCount < maxRetries
                   THEN Enqueue(S, failed)
                   ELSE [S EXCEPT
                           !.conflicts = AddToConflicts(@, StoredSyncItem(failed))]
         IN  [ctx |-> [ctx EXCEPT !.cur = failed,
                                  !.top = IF nested THEN @ ELSE failed],
              done |-> TRUE, ok |-> FALSE,
              S |-> [S1 EXCEPT !.conflicts = @ \o Reverse(ctx.stack)]]
    [] r.kind = "conflict" ->
         LET conflict == [shape |-> "conflict", localItem |-> ctx.cur,
                          serverData |-> r.serverData,
                          conflictType |-> r.conflictType,
                          timestamp |-> now, resolved |-> FALSE]
             resolution == attemptAutoResolution(conflict)
             S0 == IF r.conflictType \in AutoResolvable THEN S
                   ELSE [S EXCEPT !.hist.unknownSeen = @ \cup {conflict}]
         IN  IF resolution.resolved
             THEN [ctx |-> [ctx EXCEPT
                              !.cur = [ctx.cur EXCEPT !.data = resolution.data,
                                                      !.timestamp = now],
                              !.stack = Append(@, conflict)],
                   done |-> FALSE, ok |-> FALSE, S |-> S0]
             ELSE [ctx |-> ctx, done |-> TRUE, ok |-> FALSE,
                   S |-> [S0 EXCEPT
                            !.conflicts = AddToConflicts(@, conflict) \o Reverse(ctx.stack)]]

ClockAfter(r) == IF r.kind = "conflict" THEN clock + 1 ELSE clock

(***************************************************************************)
(* The Data Manager (src/unnamed/part_003) over its two storages: the      *)
(* IndexedDBManager (useIndexedDB) and the localStorage fallback.  A plant *)
(* is its id, its name (of the schema's fields the one the model varies)   *)
(* and its two timestamps.  A field a caller's data does not have is       *)
(* "absent" (name), 0 (id) or -1 (createdAt, updatedAt).                   *)
(***************************************************************************)
NoPlant == [id |-> 0, name |-> "none", createdAt |-> 0, updatedAt |-> 0]

NoData == [id |-> 0, name |-> "absent", createdAt |-> -1, updatedAt |-> -1]

\* { ...entity, ...data }: the fields data has replace the entity's
Spread(entity, data) ==
  [entity EXCEPT !.id = IF data.id # 0 THEN data.id ELSE @,
                 !.name = IF data.name # "absent" THEN data.name ELSE @,
                 !.createdAt = IF data.createdAt # -1 THEN data.createdAt ELSE @,
                 !.updatedAt = IF data.updatedAt # -1 THEN data.updatedAt ELSE @]

\* a validation that lets every plant pass
IsValidPlant_AcceptsAll(entity) == entity = entity

\* validateEntity(entity, 'Plant') finds no error: PlantSchema wants a name
\* of 1 to 100 characters (ids and timestamps of the model are well formed)
IsValidPlant(entity) == entity.name # ""

\* createEntity('Plant', data) before its validation: the defaults (a
\* generated id, the empty name, now) under the caller's data
createEntity(data, generatedId, now) ==
  Spread([id |-> generatedId, name |-> "", createdAt |-> now, updatedAt |-> now], data)

\* updateEntity(entity, updates, 'Plant') before its validation
updateEntity(entity, updates, now) ==
  [Spread(entity, updates) EXCEPT !.updatedAt = now]

PlantIdsOf(P) == {P[i].id : i \in DOMAIN P}

\* plants.findIndex(p => p.id === id), 0 when there is none
FindIndex(P, id) ==
  IF id \in PlantIdsOf(P)
  THEN CHOOSE i \in DOMAIN P : P[i].id = id /\ \A j \in DOMAIN P : P[j].id = id => i <= j
  ELSE 0

\* plants.find(p => p.id === id) || null, and IndexedDB's store.get(id)
FindPlant(P, id) == IF FindIndex(P, id) = 0 THEN NoPlant ELSE P[FindIndex(P, id)]

\* IndexedDB's store.put(entity): the record under the entity's key is
\* replaced, a new key is added
PutPlant(P, entity) ==
  IF FindIndex(P, entity.id) = 0 THEN Append(P, entity)
  ELSE [P EXCEPT ![FindIndex(P, entity.id)] = entity]

\* plants.filter(p => p.id !== id), and IndexedDB's store.delete(id)
RemovePlant(P, id) == SelectSeq(P, LAMBDA p : p.id # id)

\* findAll's sort of getPlants: new Date(b.updatedAt) - new Date(a.updatedAt),
\* a stable sort, here by insertion
RECURSIVE SortByUpdatedAt(_)
SortByUpdatedAt(P) ==
  IF Len(P) <= 1 THEN P
  ELSE LET rest == SortByUpdatedAt(ButLast(P))
           x == P[Len(P)]
           k == Cardinality({i \in 1..Len(rest) : rest[i].updatedAt >= x.updatedAt})
       IN  SubSeq(rest, 1, k) \o <<x>> \o SubSeq(rest, k + 1, Len(rest))

\* the cache: the entry of key plants_all (with the call whose array it is,
\* because createPlant and updatePlant change that array in place) and the
\* entries plants_<id>.  Entries are younger than cacheTimeout in the model.
EmptyCache ==
  [all |-> [has |-> FALSE, data |-> <<>>, owner |-> 0],
   byId |-> [p \in PlantIds |-> NoPlant]]

\* a call of the Data Manager: its arguments, where it stands (pc), what it
\* read (existing, local), what it built (entity) and how it ended
NoOp ==
  [kind |-> "none", pc |-> "done", id |-> 0, data |-> NoData, useCache |-> FALSE,
   existing |-> NoPlant, entity |-> NoPlant, local |-> <<>>, result |-> "none",
   calledAt |-> 0, doneAt |-> 0]

\* the Data Manager after init(); events is the stored events collection
Initialized(useIndexedDB, opsLeft, faults, nextPlant) ==
  [useIndexedDB |-> useIndexedDB, cache |-> EmptyCache, auditLog |-> <<>>,
   events |-> <<>>,
   listeners |-> <<>>, delivered |-> <<>>, ops |-> <<>>, awaiting |-> <<>>,
   nextPlant |-> nextPlant, opsLeft |-> opsLeft, faults |-> faults]

Completed(D) == {o \in DOMAIN D.ops : D.ops[o].pc = "done"}

\* the call o returns or throws
Finish(D, o, result) ==
  [D EXCEPT !.ops[o].pc = "done", !.ops[o].result = result,
            !.ops[o].doneAt = Cardinality(Completed(D)) + 1]

\* setCache('plants_all', X) of the getPlants that call o made
SetCacheAll(D, X, o) == [D EXCEPT !.cache.all = [has |-> TRUE, data |-> X, owner |-> o]]

\* setCache('plants_<id>', plant) of getPlant
SetCacheById(D, plant) ==
  IF plant = NoPlant THEN D ELSE [D EXCEPT !.cache.byId[plant.id] = plant]

\* call o changes its array in place: the cache entry that holds the same
\* array shows the change
ChangeInPlace(D, o, X) ==
  IF D.cache.all.has /\ D.cache.all.owner = o
  THEN [D EXCEPT !.cache.all.data = X, !.ops[o].local = X]
  ELSE [D EXCEPT !.ops[o].local = X]

\* clearCache('plants'): every key of the model includes 'plants'
clearCache(D) == [D EXCEPT !.cache = EmptyCache]

\* an emit that gives up at the first listener that throws
emit_StopsAtThrow(D, event, id, o) ==
  LET n == IF \E i \in DOMAIN D.listeners : D.listeners[i] = "throws"
           THEN CHOOSE i \in DOMAIN D.listeners :
                  /\ D.listeners[i] = "throws"
                  /\ \A j \in DOMAIN D.listeners : D.listeners[j] = "throws" => i <= j
           ELSE Len(D.listeners)
  IN  [D EXCEPT !.delivered = @ \o
         [i \in 1..n |-> [listener |-> D.listeners[i], event |-> event,
                          id |-> id, op |-> o]]]

\* emit(event, data): every listener is called, in the order of registration,
\* and what a listener throws is caught
emit(D, event, id, o) ==
  [D EXCEPT !.delivered = @ \o
     [i \in 1..Len(D.listeners) |-> [listener |-> D.listeners[i], event |-> event,
                                     id |-> id, op |-> o]]]

\* logAuditTrail of the IndexedDBManager
logAuditTrail(D, entityId, action) ==
  [D EXCEPT !.auditLog = Append(@, [entityId |-> entityId, action |-> action])]

\* call o awaits.  What it awaits answers in the order of the awaits: the
\* transactions of IndexedDB on one store run in the order of their
\* creation, and the awaits of the localStorage mode, which await nothing
\* but a finished call, are resumed in the order of the microtask queue.
Await(D, o, pc) == [D EXCEPT !.ops[o].pc = pc, !.awaiting = Append(@, o)]

\* the storage refuses a write (quota exceeded, a failed request)
Refused(D) == [D EXCEPT !.faults = @ - 1]

(***************************************************************************)
(* The Backup Manager (src/unnamed/part_004).  Of the data of a backup the *)
(* model keeps the plants.  A string is the sequence of its character      *)
(* codes; the JSON text of the model has one character for every value.    *)
(***************************************************************************)
NameCode(name) ==
  CASE name = "basil" -> 98
    [] name = "mint" -> 109
    [] name = "" -> 34
    [] OTHER -> 63

NameOfCode(code) ==
  CASE code = 98 -> "basil"
    [] code = 109 -> "mint"
    [] code = 34 -> ""
    [] OTHER -> "none"

\* JSON.stringify of the plants of a backup's data
RECURSIVE StringifyItems(_)
StringifyItems(P) ==
  IF P = <<>> THEN <<>>
  ELSE <<123, 48 + P[1].id, NameCode(P[1].name), 48 + P[1].createdAt,
         48 + P[1].updatedAt, 125>> \o StringifyItems(Tail(P))

Stringify(P) == <<91>> \o StringifyItems(P) \o <<93>>

\* JSON.parse succeeds on the text
WellFormed(str) ==
  /\ Len(str) >= 2
  /\ (Len(str) - 2) % 6 = 0
  /\ str[1] = 91
  /\ str[Len(str)] = 93
  /\ \A k \in 0..((Len(str) - 2) \div 6 - 1) : str[2 + 6 * k] = 123 /\ str[7 + 6 * k] = 125

\* JSON.parse of a well formed text
Parse(str) ==
  [k \in 1..((Len(str) - 2) \div 6) |->
     [id |-> str[6 * k - 3] - 48, name |-> NameOfCode(str[6 * k - 2]),
      createdAt |-> str[6 * k - 1] - 48, updatedAt |-> str[6 * k] - 48]]

\* one round of calculateChecksum: ((hash << 5) - hash) + char, cut to 32
\* bits by hash & hash.  The hash is kept as its two 16 bit halves.
HashStep(hash, char) ==
  LET low == 31 * hash[2] + char
  IN  <<(31 * hash[1] + low \div 65536) % 65536, low % 65536>>

\* calculateChecksum(dataString); hash.toString(36) names the hash one to one
RECURSIVE calculateChecksum(_)
calculateChecksum(str) ==
  IF str = <<>> THEN <<0, 0>>
  ELSE HashStep(calculateChecksum(ButLast(str)), str[Len(str)])

\* the checksum field of a backup that has none
NoChecksum == <<>>

\* compressData keeps the JSON text of the data (base64 names a text of
\* Latin-1 characters one to one); decompressData parses it back
compressData(P) == [compressed |-> TRUE, text |-> Stringify(P)]

NoBackup ==
  [id |-> 0, type |-> "none", createdAt |-> 0, checksum |-> NoChecksum,
   data |-> [compressed |-> TRUE, text |-> <<>>]]

\* a verification that asks for a checksum and no more
verifyBackup_AnyChecksum(backup) == backup.checksum # NoChecksum

\* verifyBackup(backup): false without a checksum and when decompressData
\* throws, else the comparison of the recomputed checksum with the stored
verifyBackup(backup) ==
  /\ backup.checksum # NoChecksum
  /\ WellFormed(backup.data.text)
  /\ calculateChecksum(Stringify(Parse(backup.data.text))) = backup.checksum

\* backups.find(b => b.id === backupId)
FindBackup(B, id) ==
  IF \E i \in DOMAIN B : B[i].id = id
  THEN B[CHOOSE i \in DOMAIN B : B[i].id = id /\ \A j \in DOMAIN B : B[j].id = id => i <= j]
  ELSE NoBackup

\* saveBackup's sort, new Date(b.createdAt) - new Date(a.createdAt): a stable
\* sort, here by insertion
RECURSIVE SortByCreatedAt(_)
SortByCreatedAt(B) ==
  IF Len(B) <= 1 THEN B
  ELSE LET rest == SortByCreatedAt(ButLast(B))
           x == B[Len(B)]
           k == Cardinality({i \in 1..Len(rest) : rest[i].createdAt >= x.createdAt})
       IN  SubSeq(rest, 1, k) \o <<x>> \o SubSeq(rest, k + 1, Len(rest))

\* saveBackup(backup)
saveBackup(B, backup) == SortByCreatedAt(Append(B, backup))

OfType(B, type) == SelectSeq(B, LAMBDA b : b.type = type)

Max(a, b) == IF a > b THEN a ELSE b

\* a cleanup that cuts the whole list to the cap
cleanupOldBackups_CutsAll(B) ==
  IF Len(B) > maxBackups THEN SubSeq(B, 1, maxBackups) ELSE B

\* cleanupOldBackups
cleanupOldBackups(B) ==
  IF Len(B) > maxBackups
  THEN LET automaticBackups == OfType(B, "automatic")
           manualBackups == OfType(B, "manual")
           n == Max(1, maxBackups - Len(manualBackups))
       IN  manualBackups \o SubSeq(automaticBackups, 1, Min(n, Len(automaticBackups)))
  ELSE B

\* a call of restoreFromBackup: its arguments, where it stands, the plants of
\* the backup, the one it is at (k), the calls the Data Manager had when it
\* came to that plant (base), and what it returns
NoRestore ==
  [pc |-> "idle", id |-> 0, dryRun |-> FALSE, overwriteExisting |-> FALSE,
   entities |-> <<>>, k |-> 0, base |-> 0, restored |-> 0, skipped |-> 0,
   errors |-> 0, recoveryBackupId |-> 0, result |-> "none",
   summary |-> [plants |-> 0]]

\* the Backup Manager constructed: localStorage hydro_backups, the next
\* backup id, the running restore, the backup createBackup last returned,
\* and the calls and the damage the environment has left
BackupManager(backups, nextBackup, createsLeft, restoresLeft, damageLeft) ==
  [backups |-> backups, nextBackup |-> nextBackup, restore |-> NoRestore,
   created |-> NoBackup, createsLeft |-> createsLeft,
   restoresLeft |-> restoresLeft, damageLeft |-> damageLeft]

\* specifications that leave the Backup Manager, the Query Engine and
\* calculateRetryDelay's callers aside
NoBackupCalls == bm = BackupManager(<<>>, 1, 0, 0, 0)

(***************************************************************************)
(* Query Engine (src/src/data/QueryEngine.js): query on the plants         *)
(* collection.  The options of the model: a filter {name: value}, a search *)
(* term over searchFields ['name'], a sort {field: 'createdAt', direction},*)
(* limit (0 for null), offset, an aggregate {count: {type: 'count', field: *)
(* 'id'}} and useCache.                                                    *)
(***************************************************************************)
NoQueryResult ==
  [data |-> <<>>, totalCount |-> 0, hasMore |-> FALSE, page |-> 0, totalPages |-> 0,
   aggregations |-> [has |-> FALSE, count |-> 0]]

DefaultOptions ==
  [filter |-> "none", search |-> "none", sort |-> "none", limit |-> 0, offset |-> 0,
   aggregate |-> FALSE, useCache |-> TRUE]

\* no query: options, the array getData answered as it was read, the result
\* and whether it came from the cache
NoQuery ==
  [pc |-> "idle", options |-> DefaultOptions, read |-> <<>>, hit |-> FALSE,
   result |-> NoQueryResult]

\* the Query Engine after its constructor; cache holds the entries of the
\* Map as [options, result], younger than cacheTimeout in the model
QueryEngine(left) == [cache |-> <<>>, call |-> NoQuery, left |-> left]

\* getCache(cacheKey): the place of the entry, 0 for none
CachedAt(cache, options) ==
  IF \E i \in DOMAIN cache : cache[i].options = options
  THEN CHOOSE i \in DOMAIN cache : cache[i].options = options
  ELSE 0

\* setCache(cacheKey, result)
SetQueryCache(cache, options, result) ==
  IF CachedAt(cache, options) = 0
  THEN Append(cache, [options |-> options, result |-> result])
  ELSE [cache EXCEPT ![CachedAt(cache, options)].result = result]

\* an operator the filter object does not give
NotGiven == -1

\* matchesFilter(value, filter) for a filter object over the comparison
\* operators: the first operator the object gives, in the order of the
\* code, answers; an object with none of them matches nothing
matchesFilter(value, filter) ==
  IF filter.eq # NotGiven THEN value = filter.eq
  ELSE IF filter.ne # NotGiven THEN value # filter.ne
  ELSE IF filter.gt # NotGiven THEN value > filter.gt
  ELSE IF filter.gte # NotGiven THEN value >= filter.gte
  ELSE IF filter.lt # NotGiven THEN value < filter.lt
  ELSE IF filter.lte # NotGiven THEN value <= filter.lte
  ELSE FALSE

\* applyFilters with {name: filter}: matchesFilter's simple equality
applyFilters(data, filter) == SelectSeq(data, LAMBDA item : item.name = filter)

\* applySearch over the name: of the names of the model none is part of
\* another, so includes() is equality
applySearch(data, search) == SelectSeq(data, LAMBDA item : item.name = search)

\* compareSortValues on createdAt
compareSortValues(a, b, direction) ==
  LET comparison == IF a.createdAt < b.createdAt THEN -1
                    ELSE IF a.createdAt > b.createdAt THEN 1 ELSE 0
  IN  IF direction = "desc" THEN -comparison ELSE comparison

\* data.sort(compare): Array.prototype.sort is stable
RECURSIVE applySort(_, _)
applySort(data, direction) ==
  IF Len(data) <= 1 THEN data
  ELSE LET rest == applySort(ButLast(data), direction)
           x == data[Len(data)]
           k == Cardinality({i \in 1..Len(rest) :
                               compareSortValues(rest[i], x, direction) <= 0})
       IN  SubSeq(rest, 1, k) \o <<x>> \o SubSeq(rest, k + 1, Len(rest))

\* a pagination that starts at the first item whatever the offset
applyPagination_FromStart(data, offset, limit) ==
  SubSeq(data, 1, Min(IF limit # 0 THEN limit ELSE Len(data), Len(data)))

\* applyPagination: data.slice(start, end)
applyPagination(data, offset, limit) ==
  LET start == offset
      end == IF limit # 0 THEN start + limit ELSE Len(data)
  IN  SubSeq(data, start + 1, Min(end, Len(data)))

\* Math.ceil(a / b) for b > 0
Ceil(a, b) == (a + b - 1) \div b

\* calculateAggregations(data, {count: {type: 'count', field: 'id'}}):
\* values.length of the ids, which every plant has
calculateAggregations(data) == [has |-> TRUE, count |-> Len(data)]

\* the array query works on after getData: data.filter answers a new
\* array, without filter and search it is the array getData answered
Filtered(read, options) ==
  LET filtered == IF options.filter # "none" THEN applyFilters(read, options.filter)
                  ELSE read
  IN  IF options.search # "none" THEN applySearch(filtered, options.search)
      ELSE filtered

\* query sorts the very array the Data Manager cached
SortsInPlace(options) ==
  options.sort # "none" /\ options.filter = "none" /\ options.search = "none"

Sorted(read, options) ==
  IF options.sort # "none" THEN applySort(Filtered(read, options), options.sort)
  ELSE Filtered(read, options)

\* query from the answer of getData to its result
QueryResult(read, options) ==
  LET limit == options.limit
      offset == options.offset
      totalCount == Len(Filtered(read, options))
      sorted == Sorted(read, options)
      data == IF limit # 0 \/ offset > 0 THEN applyPagination(sorted, offset, limit)
              ELSE sorted
  IN  [data |-> data,
       totalCount |-> totalCount,
       hasMore |-> IF limit # 0 THEN offset + limit < totalCount ELSE FALSE,
       page |-> IF limit # 0 THEN offset \div limit + 1 ELSE 1,
       totalPages |-> IF limit # 0 THEN Ceil(totalCount, limit) ELSE 1,
       aggregations |-> IF options.aggregate THEN calculateAggregations(data)
                        ELSE NoQueryResult.aggregations]

NoQueryCalls == qe = QueryEngine(0)

\* no call of calculateRetryDelay under study: its two retry counts and the
\* delays it answered
IdleProbe == [pc |-> "idle", a |-> 0, b |-> 0, da |-> 0, db |-> 0]

NoProbe == probe = IdleProbe

\* no syncData call
NoCall == [st |-> "none", top |-> NoItem, cur |-> NoItem, stack |-> <<>>]

\* no resolveConflict call: index is the place findIndex found, read the
\* array getConflicts returned, ctx the syncSingleItem call of the resolved item
NoResolve ==
  [pc |-> "idle", index |-> 0, read |-> <<>>, ctx |-> NoCall, result |-> "none",
   accepted |-> FALSE, before |-> <<>>, left |-> 0]

\* the components a specification leaves aside
Aside == NoBackupCalls /\ NoQueryCalls /\ NoProbe /\ resolving = NoResolve

(***************************************************************************)
(* Initial state: the service just constructed, nothing persisted.         *)
(***************************************************************************)

\* mem is the drain's queue array, lo the index of the running batch's first
\* item, slots the batch's syncSingleItemWithDelay calls, synced the items
\* processedCount counted
IdleDrain == [mem |-> <<>>, lo |-> 0, slots |-> <<>>, synced |-> {}]

NoHistory ==
  [delivered |-> {}, evicted |-> {}, superseded |-> {}, mergedAccepted |-> {},
   unknownSeen |-> {}, busyTrigger |-> FALSE, attempted |-> {}]

Constructed ==
  /\ isOnline \in BOOLEAN
  /\ syncInProgress = FALSE
  /\ queue = <<>>
  /\ conflicts = <<>>
  /\ clock = 1
  /\ nextId = 1
  /\ calls = <<>>
  /\ drain = IdleDrain
  /\ hist = NoHistory

\* the Data Manager initialized and left alone
NoStoreCalls ==
  /\ plants = <<>>
  /\ dm = Initialized(TRUE, 0, 0, 1)

Init ==
  /\ Constructed
  /\ NoStoreCalls
  /\ Aside
  /\ callsLeft = MaxMutations
  /\ adverse = MaxAdverse

(***************************************************************************)
(* syncData                                                                *)
(***************************************************************************)
Inflight == {m \in DOMAIN calls : calls[m].st = "inflight"}

\* a dispatch test that looks at the network alone
TryImmediateSync_IgnoresDrain == isOnline

\* syncData's dispatch test: if (this.isOnline && !this.syncInProgress)
TryImmediateSync == isOnline /\ ~syncInProgress

\* syncData with data that validateEntity accepts (with other data it throws
\* before it touches any state)
SyncData(t) ==
  LET syncItem == [id |-> nextId, entityType |-> Triples[t].entityType,
                   dataId |-> Triples[t].dataId, operation |-> Triples[t].operation,
                   data |-> "local", timestamp |-> clock,
                   retryCount |-> 0, processed |-> FALSE]
  IN
  /\ callsLeft > 0
  /\ t \in DOMAIN Triples
  /\ t <= nextId
  /\ nextId' = nextId + 1
  /\ callsLeft' = callsLeft - 1
  /\ clock' = clock + 1
  /\ IF TryImmediateSync
     THEN \* try immediate sync: the request is in flight
          /\ Cardinality(Inflight) < MaxInflight
          /\ calls' = Append(calls, [st |-> "inflight", top |-> syncItem,
                                      cur |-> syncItem, stack |-> <<>>])
          /\ UNCHANGED <<queue, hist>>
     ELSE \* add to queue for later sync
          LET S == Enqueue(Store, syncItem)
          IN  /\ queue' = S.queue
              /\ hist' = S.hist
              /\ calls' = Append(calls, [NoCall EXCEPT !.st = "queued",
                                                      !.top = syncItem])
  /\ UNCHANGED <<isOnline, syncInProgress, conflicts, drain, adverse, plants, dm, bm, qe, probe, resolving>>

\* the answer to the request of a syncData call arrives
CallResponse(m, r) ==
  /\ m \in DOMAIN calls
  /\ calls[m].st = "inflight"
  /\ r \in Answers
  /\ LET res == HandleResponse(calls[m], r, Store, clock)
         S == IF res.done /\ ~res.ok THEN Enqueue(res.S, res.ctx.top) ELSE res.S
     IN  /\ calls' = [calls EXCEPT ![m] =
                        [res.ctx EXCEPT !.st = IF ~res.done THEN "inflight"
                                               ELSE IF res.ok THEN "synced" ELSE "queued"]]
         /\ queue' = S.queue
         /\ conflicts' = S.conflicts
         /\ hist' = S.hist
  /\ clock' = ClockAfter(r)
  /\ adverse' = AdverseAfter(r)
  /\ UNCHANGED <<isOnline, syncInProgress, nextId, callsLeft, drain, plants, dm, bm, qe, probe, resolving>>

(***************************************************************************)
(* processSyncQueue                                                        *)
(***************************************************************************)
\* batch.map(item => this.syncSingleItemWithDelay(item)) for the batch that
\* starts at mem[lo]: an item without delay has its request sent at once
BatchSlots(mem, lo) ==
  [k \in 1..Min(batchSize, Len(mem) - lo + 1) |->
     LET item == mem[lo + k - 1]
     IN  [st |-> IF calculateRetryDelay(item.retryCount) = 0 THEN "inflight" ELSE "wait",
          top |-> item, cur |-> item, stack |-> <<>>]]

\* a processSyncQueue that starts a drain whether or not one is running
ProcessSyncQueue_NoGuard ==
  /\ hist' = [hist EXCEPT !.busyTrigger = @ \/ syncInProgress]
  /\ IF ~isOnline' \/ queue = <<>>
     THEN UNCHANGED <<syncInProgress, drain>>
     ELSE /\ syncInProgress' = TRUE
          /\ drain' = [mem |-> SortByTimestamp(queue), lo |-> 1,
                       slots |-> BatchSlots(SortByTimestamp(queue), 1), synced |-> {}]

\* processSyncQueue from its call to the first await of the network or a timer;
\* the history notes a call that found a drain running
ProcessSyncQueue ==
  /\ hist' = [hist EXCEPT !.busyTrigger = @ \/ syncInProgress]
  /\ IF syncInProgress \/ ~isOnline' \/ queue = <<>>
     THEN UNCHANGED <<syncInProgress, drain>>
     ELSE /\ syncInProgress' = TRUE
          /\ drain' = [mem |-> SortByTimestamp(queue), lo |-> 1,
                       slots |-> BatchSlots(SortByTimestamp(queue), 1), synced |-> {}]

\* the backoff delay of a batch item ends: its request is sent.  The timers
\* of a batch start together, so the shorter delay ends first.
DelayElapsed(k) ==
  /\ syncInProgress
  /\ k \in DOMAIN drain.slots
  /\ drain.slots[k].st = "wait"
  /\ \A j \in DOMAIN drain.slots :
        drain.slots[j].st = "wait" =>
          LET dj == calculateRetryDelay(drain.slots[j].top.retryCount)
              dk == calculateRetryDelay(drain.slots[k].top.retryCount)
          IN  dk < dj \/ (dk = dj /\ k <= j)
  /\ drain' = [drain EXCEPT !.slots[k].st = "inflight"]
  /\ UNCHANGED <<isOnline, syncInProgress, queue, conflicts, clock, nextId, callsLeft, calls,
                 adverse, plants, dm, hist, bm, qe, probe, resolving>>

\* the answer to the request of a batch item arrives
DrainResponse(k, r) ==
  /\ syncInProgress
  /\ k \in DOMAIN drain.slots
  /\ drain.slots[k].st = "inflight"
  /\ r \in Answers
  /\ LET res == HandleResponse(drain.slots[k], r, Store, clock)
         i == drain.lo + k - 1
     IN  /\ drain' = [drain EXCEPT
                        !.slots[k] = [res.ctx EXCEPT !.st = IF res.done THEN "done"
                                                            ELSE "inflight"],
                        !.mem[i] = IF res.done
                                   THEN [res.ctx.top EXCEPT !.processed = @ \/ res.ok]
                                   ELSE @,
                        !.synced = IF res.done /\ res.ok
                                   THEN @ \cup {res.ctx.top.id} ELSE @]
         /\ queue' = res.S.queue
         /\ conflicts' = res.S.conflicts
         /\ hist' = res.S.hist
  /\ clock' = ClockAfter(r)
  /\ adverse' = AdverseAfter(r)
  /\ UNCHANGED <<isOnline, syncInProgress, nextId, callsLeft, calls, plants, dm, bm, qe, probe, resolving>>

AllSettled == \A k \in DOMAIN drain.slots : drain.slots[k].st = "done"

\* remainingQueue: the items kept after the last batch
RemainingQueue(mem) ==
  SelectSeq(mem, LAMBDA item : item.retryCount >= maxRetries \/ ~item.processed)

\* Promise.allSettled of a batch resolves and the 500 ms pause ends: the next
\* batch starts, or after the last one saveQueue(remainingQueue), then finally
BatchSettled ==
  /\ syncInProgress
  /\ AllSettled
  /\ IF drain.lo + batchSize <= Len(drain.mem)
     THEN /\ drain' = [drain EXCEPT !.lo = @ + batchSize,
                                    !.slots = BatchSlots(drain.mem, drain.lo + batchSize)]
          /\ UNCHANGED <<queue, syncInProgress>>
     ELSE /\ queue' = RemainingQueue(drain.mem)
          /\ syncInProgress' = FALSE
          /\ drain' = IdleDrain
  /\ UNCHANGED <<isOnline, conflicts, clock, nextId, callsLeft, calls, adverse, plants, dm,
                 hist, bm, qe, probe, resolving>>

(***************************************************************************)
(* Triggers                                                                *)
(***************************************************************************)
OnlineEvent ==
  /\ ~isOnline
  /\ isOnline' = TRUE
  /\ ProcessSyncQueue
  /\ UNCHANGED <<queue, conflicts, clock, nextId, callsLeft, calls, adverse, plants, dm, bm, qe, probe, resolving>>

OfflineEvent ==
  /\ isOnline
  /\ adverse > 0
  /\ isOnline' = FALSE
  /\ adverse' = adverse - 1
  /\ UNCHANGED <<syncInProgress, queue, conflicts, clock, nextId, callsLeft, calls, drain,
                 plants, dm, hist, bm, qe, probe, resolving>>

\* the 5 minute interval
AutoSyncTimer ==
  /\ isOnline /\ ~syncInProgress
  /\ isOnline' = isOnline
  /\ ProcessSyncQueue
  /\ UNCHANGED <<queue, conflicts, clock, nextId, callsLeft, calls, adverse, plants, dm, bm, qe, probe, resolving>>

ForceSyncNow ==
  /\ isOnline
  /\ isOnline' = isOnline
  /\ ProcessSyncQueue
  /\ UNCHANGED <<queue, conflicts, clock, nextId, callsLeft, calls, adverse, plants, dm, bm, qe, probe, resolving>>

(***************************************************************************)
(* Data Manager                                                            *)
(***************************************************************************)
\* the data the callers of the model pass: a name, nothing (the default name
\* is empty and fails the schema), or a name with the id of a plant made
\* before
CreateInputs ==
  {[NoData EXCEPT !.name = "basil"], NoData}
    \cup {[NoData EXCEPT !.name = "basil", !.id = p] : p \in 1..(dm.nextPlant - 1)}

\* the patches of the model: a name, the empty name (fails the schema), the
\* id of another plant, another createdAt
UpdateInputs ==
  {[NoData EXCEPT !.name = "mint"], [NoData EXCEPT !.name = ""],
   [NoData EXCEPT !.createdAt = clock]}
    \cup {[NoData EXCEPT !.id = p] : p \in PlantIds}

Running == {o \in DOMAIN dm.ops : dm.ops[o].pc # "done"}

\* a new call, as the entry that awaits its first step
Called(kind, id, data, useCache) ==
  [NoOp EXCEPT !.kind = kind, !.pc = "called", !.id = id, !.data = data,
               !.useCache = useCache, !.calledAt = Cardinality(Completed(dm))]

CanCall ==
  /\ dm.opsLeft > 0
  /\ Cardinality(Running) < MaxRunning

Call(op) == [dm EXCEPT !.opsLeft = @ - 1, !.ops = Append(@, op)]

\* createPlant up to its first await
CreatePlant(data) ==
  LET o == Len(dm.ops) + 1
      plant == createEntity(data, dm.nextPlant, clock)
      D == [Call([Called("createPlant", plant.id, data, FALSE) EXCEPT !.entity = plant])
              EXCEPT !.nextPlant = IF data.id = 0 THEN @ + 1 ELSE @]
  IN
  /\ CanCall
  /\ data.id = 0 => dm.nextPlant \in PlantIds
  /\ clock' = clock + 1
  /\ dm' = IF ~IsValidPlant(plant) THEN Finish(D, o, "invalid")
           ELSE IF D.useIndexedDB THEN Await(D, o, "add")
           ELSE Await([SetCacheAll(D, plants, o) EXCEPT !.ops[o].local = plants], o, "save")
  /\ UNCHANGED <<isOnline, syncInProgress, queue, conflicts, nextId, callsLeft, calls,
                 drain, adverse, hist, plants, bm, qe, probe, resolving>>

\* updatePlant from the plant getPlant found: not found, updateEntity, and on
\* to the storage
ApplyUpdate(D, o, existing) ==
  LET updatedPlant == updateEntity(existing, D.ops[o].data, clock)
      D1 == [D EXCEPT !.ops[o].existing = existing, !.ops[o].entity = updatedPlant]
  IN
  IF existing = NoPlant
  THEN [plants |-> plants, dm |-> Finish(D, o, "notfound"), clock |-> clock]
  ELSE IF ~IsValidPlant(updatedPlant)
  THEN [plants |-> plants, dm |-> Finish([D EXCEPT !.ops[o].existing = existing], o, "invalid"),
        clock |-> clock + 1]
  ELSE IF D.useIndexedDB
  THEN [plants |-> plants, dm |-> Await(D1, o, "readOriginal"), clock |-> clock + 1]
  ELSE [plants |-> plants,
        dm |-> Await([SetCacheAll(D1, plants, o) EXCEPT !.ops[o].local = plants], o, "save"),
        clock |-> clock + 1]

\* updatePlant up to its first await of the storage or of a finished call:
\* getPlant(id) answers from the cache, reads IndexedDB, or calls
\* getPlants(false)
UpdatePlant(id, updates) ==
  LET o == Len(dm.ops) + 1
      D == Call(Called("updatePlant", id, updates, FALSE))
      cached == dm.cache.byId[id]
      after == IF cached # NoPlant /\ D.useIndexedDB
               THEN ApplyUpdate(D, o, cached)
               ELSE [plants |-> plants, clock |-> clock,
                     dm |-> IF cached # NoPlant
                            THEN Await([D EXCEPT !.ops[o].existing = cached], o, "apply")
                            ELSE IF D.useIndexedDB THEN Await(D, o, "readExisting")
                            ELSE Await([SetCacheAll(D, plants, o)
                                          EXCEPT !.ops[o].local = plants], o, "find")]
  IN
  /\ CanCall
  /\ id \in PlantIds
  /\ dm' = after.dm
  /\ clock' = after.clock
  /\ UNCHANGED <<isOnline, syncInProgress, queue, conflicts, nextId, callsLeft,
                 calls, drain, adverse, hist, plants, bm, qe, probe, resolving>>

\* deletePlant up to its first await
DeletePlant(id) ==
  LET o == Len(dm.ops) + 1
      D == Call(Called("deletePlant", id, NoData, FALSE))
  IN
  /\ CanCall
  /\ id \in PlantIds
  /\ dm' = IF D.useIndexedDB THEN Await(D, o, "readEntity")
           ELSE Await([SetCacheAll(D, plants, o) EXCEPT !.ops[o].local = plants], o, "save")
  /\ UNCHANGED <<isOnline, syncInProgress, queue, conflicts, clock, nextId, callsLeft,
                 calls, drain, adverse, hist, plants, bm, qe, probe, resolving>>

\* getPlants(useCache) up to its first await; from the cache and from
\* localStorage it has none
GetPlants(useCache) ==
  LET o == Len(dm.ops) + 1
      D == Call(Called("getPlants", 0, NoData, useCache))
  IN
  /\ CanCall
  /\ useCache \in BOOLEAN
  /\ dm' = IF useCache /\ dm.cache.all.has
           THEN Finish([D EXCEPT !.ops[o].local = dm.cache.all.data], o, "ok")
           ELSE IF D.useIndexedDB THEN Await(D, o, "findAll")
           ELSE Finish([SetCacheAll(D, plants, o) EXCEPT !.ops[o].local = plants], o, "ok")
  /\ UNCHANGED <<isOnline, syncInProgress, queue, conflicts, clock, nextId, callsLeft,
                 calls, drain, adverse, hist, plants, bm, qe, probe, resolving>>

\* on(event, callback) for the plant events: a callback that returns, or one
\* that throws
On(callback) ==
  /\ callback \in {"returns", "throws"}
  /\ \A i \in DOMAIN dm.listeners : dm.listeners[i] # callback
  /\ dm' = [dm EXCEPT !.listeners = Append(@, callback)]
  /\ UNCHANGED <<isOnline, syncInProgress, queue, conflicts, clock, nextId, callsLeft,
                 calls, drain, adverse, hist, plants, bm, qe, probe, resolving>>

\* the step of call o writes the storage
Writes(o) ==
  LET op == dm.ops[o]
  IN  \/ op.pc \in {"put", "del"}
      \/ op.pc = "add" /\ op.entity.id \notin PlantIdsOf(plants)
      \/ op.pc = "save" /\ (op.kind = "updatePlant" => FindIndex(op.local, op.id) # 0)

\* the state after the next step of a createPlant
AfterCreate(D, o, fail) ==
  LET op == D.ops[o]
  IN
  IF op.pc = "add"
  THEN \* store.add answers
       IF op.entity.id \in PlantIdsOf(plants)
       THEN [plants |-> plants, dm |-> Finish(D, o, "duplicate"), clock |-> clock]
       ELSE IF fail
       THEN [plants |-> plants, dm |-> Finish(Refused(D), o, "storage"), clock |-> clock]
       ELSE [plants |-> Append(plants, op.entity),
             dm |-> Finish(emit(clearCache(logAuditTrail(D, op.entity.id, "CREATE")),
                                "plantCreated", op.entity.id, o), o, "ok"),
             clock |-> clock]
  ELSE \* plants.unshift(plant); saveToLocalStorage
       LET X == <<op.entity>> \o op.local
           D1 == ChangeInPlace(D, o, X)
       IN  IF fail
           THEN [plants |-> plants, dm |-> Finish(Refused(D1), o, "storage"), clock |-> clock]
           ELSE [plants |-> X,
                 dm |-> Finish(emit(clearCache(D1), "plantCreated", op.entity.id, o), o, "ok"),
                 clock |-> clock]

\* the state after the next step of an updatePlant
AfterUpdate(D, o, fail) ==
  LET op == D.ops[o]
  IN
  CASE op.pc = "readExisting" ->
         \* indexedDBManager.read answers getPlant
         ApplyUpdate(SetCacheById(D, FindPlant(plants, op.id)), o, FindPlant(plants, op.id))
    [] op.pc = "find" ->
         \* getPlant goes on after getPlants(false): plants.find, setCache
         [plants |-> plants, clock |-> clock,
          dm |-> Await([SetCacheById(D, FindPlant(op.local, op.id))
                          EXCEPT !.ops[o].existing = FindPlant(op.local, op.id)], o, "apply")]
    [] op.pc = "apply" -> ApplyUpdate(D, o, op.existing)
    [] op.pc = "readOriginal" ->
         \* the read for the audit trail answers; store.put is requested
         [plants |-> plants, dm |-> Await(D, o, "put"), clock |-> clock]
    [] op.pc = "put" ->
         IF fail
         THEN [plants |-> plants, dm |-> Finish(Refused(D), o, "storage"), clock |-> clock]
         ELSE [plants |-> PutPlant(plants, op.entity),
               dm |-> Finish(emit(clearCache(logAuditTrail(D, op.entity.id, "UPDATE")),
                                  "plantUpdated", op.entity.id, o), o, "ok"),
               clock |-> clock]
    [] op.pc = "save" ->
         \* plants[index] = updatedPlant; saveToLocalStorage, if there is an index
         LET index == FindIndex(op.local, op.id)
             X == IF index = 0 THEN op.local ELSE [op.local EXCEPT ![index] = op.entity]
             D2 == ChangeInPlace(D, o, X)
         IN  IF fail
             THEN [plants |-> plants, dm |-> Finish(Refused(D2), o, "storage"),
                   clock |-> clock]
             ELSE [plants |-> IF index = 0 THEN plants ELSE X,
                   dm |-> Finish(emit(clearCache(D2), "plantUpdated", op.entity.id, o),
                                 o, "ok"),
                   clock |-> clock]

\* the state after the next step of a deletePlant
AfterDelete(D, o, fail) ==
  LET op == D.ops[o]
  IN
  CASE op.pc = "readEntity" ->
         \* the read for the audit trail answers; store.delete is requested
         [plants |-> plants,
          dm |-> Await([D EXCEPT !.ops[o].existing = FindPlant(plants, op.id)], o, "del"),
          clock |-> clock]
    [] op.pc = "del" ->
         IF fail
         THEN [plants |-> plants, dm |-> Finish(Refused(D), o, "storage"), clock |-> clock]
         ELSE [plants |-> RemovePlant(plants, op.id),
               dm |-> Finish(emit(clearCache(IF op.existing = NoPlant THEN D
                                             ELSE logAuditTrail(D, op.id, "DELETE")),
                                  "plantDeleted", op.id, o), o, "ok"),
               clock |-> clock]
    [] op.pc = "save" ->
         \* plants.filter; saveToLocalStorage
         IF fail
         THEN [plants |-> plants, dm |-> Finish(Refused(D), o, "storage"), clock |-> clock]
         ELSE [plants |-> RemovePlant(op.local, op.id),
               dm |-> Finish(emit(clearCache(D), "plantDeleted", op.id, o), o, "ok"),
               clock |-> clock]

\* the state after findAll has answered a getPlants
AfterGet(D, o) ==
  LET X == SortByUpdatedAt(plants)
  IN  [plants |-> plants,
       dm |-> Finish([SetCacheAll(D, X, o) EXCEPT !.ops[o].local = X], o, "ok"),
       clock |-> clock]

\* the call that awaits longest goes on: its transaction answers, or
\* (localStorage) it is resumed
Continue(o, fail) ==
  /\ dm.awaiting # <<>>
  /\ o = Head(dm.awaiting)
  /\ fail => (dm.faults > 0 /\ Writes(o))
  /\ LET D == [dm EXCEPT !.awaiting = Tail(@)]
         after == CASE dm.ops[o].kind = "createPlant" -> AfterCreate(D, o, fail)
                    [] dm.ops[o].kind = "updatePlant" -> AfterUpdate(D, o, fail)
                    [] dm.ops[o].kind = "deletePlant" -> AfterDelete(D, o, fail)
                    [] dm.ops[o].kind = "getPlants" -> AfterGet(D, o)
     IN  /\ plants' = after.plants
         /\ dm' = after.dm
         /\ clock' = after.clock
  /\ UNCHANGED <<isOnline, syncInProgress, queue, conflicts, nextId, callsLeft, calls,
                 drain, adverse, hist, bm, qe, probe, resolving>>

(***************************************************************************)
(* Backup Manager: createBackup, restoreFromBackup                         *)
(***************************************************************************)
\* what getPlants(false) reads and caches for a caller that awaits it alone
ReadPlants(D) ==
  LET X == IF D.useIndexedDB THEN SortByUpdatedAt(plants) ELSE plants
  IN  [plants |-> X, dm |-> SetCacheAll(D, X, 0)]

\* what getPlant(id) answers and caches for a caller that awaits it alone
ReadPlant(D, id) ==
  IF D.cache.byId[id] # NoPlant THEN [plant |-> D.cache.byId[id], dm |-> D]
  ELSE IF D.useIndexedDB
  THEN [plant |-> FindPlant(plants, id), dm |-> SetCacheById(D, FindPlant(plants, id))]
  ELSE [plant |-> FindPlant(plants, id),
        dm |-> SetCacheById(SetCacheAll(D, plants, 0), FindPlant(plants, id))]

\* the Backup Manager runs no call and the Data Manager none for it
Quiet == bm.restore.pc \in {"idle", "done"} /\ Running = {}

\* createBackup({manual}) run to its end: the data is read, the backup built
\* with its checksum, compressed, saved and the list cleaned up.  btoa
\* throws on a text with a character outside Latin-1 (the default status and
\* image of a plant are such text), and localStorage.setItem on a full quota.
BackupCreated(B, manual, outcome) ==
  LET read == ReadPlants(dm)
      backup == [id |-> B.nextBackup,
                 type |-> IF manual THEN "manual" ELSE "automatic",
                 createdAt |-> clock,
                 checksum |-> calculateChecksum(Stringify(read.plants)),
                 data |-> compressData(read.plants)]
  IN  [dm |-> read.dm,
       ok |-> outcome = "ok",
       bm |-> IF outcome = "ok"
              THEN [B EXCEPT !.nextBackup = @ + 1, !.created = backup,
                             !.backups = cleanupOldBackups(saveBackup(@, backup))]
              ELSE [B EXCEPT !.created = NoBackup]]

BackupOutcomes == {"ok", "encode", "quota"}

\* createBackup called by the user (manual) or by checkAutoBackup
CreateBackup(manual, outcome, tick) ==
  /\ Quiet
  /\ bm.createsLeft > 0
  /\ outcome \in BackupOutcomes
  /\ tick \in {0, 1}
  /\ LET after == BackupCreated([bm EXCEPT !.createsLeft = @ - 1], manual, outcome)
     IN  /\ bm' = after.bm
         /\ dm' = after.dm
  /\ clock' = clock + tick
  /\ UNCHANGED <<isOnline, syncInProgress, queue, conflicts, nextId, callsLeft, calls,
                 drain, adverse, plants, qe, probe, resolving, hist>>

\* the stored text of hydro_backups is damaged between the creation of a
\* backup and its restore: the checksum is lost, the data is another valid
\* text, or the data is cut
Damaged(backup, how) ==
  CASE how = "checksum" -> [backup EXCEPT !.checksum = NoChecksum]
    [] how = "data" ->
         [backup EXCEPT !.data.text = IF @ = Stringify(<<>>) THEN Stringify(<<NoPlant>>)
                                      ELSE Stringify(Tail(Parse(@)))]
    [] how = "cut" -> [backup EXCEPT !.data.text = ButLast(@)]

Damage(i, how) ==
  /\ Quiet
  /\ bm.damageLeft > 0
  /\ i \in DOMAIN bm.backups
  /\ verifyBackup(bm.backups[i])
  /\ how \in {"checksum", "data", "cut"}
  /\ bm' = [bm EXCEPT !.damageLeft = @ - 1, !.backups[i] = Damaged(@, how)]
  /\ UNCHANGED <<isOnline, syncInProgress, queue, conflicts, clock, nextId, callsLeft,
                 calls, drain, adverse, plants, dm, qe, probe, resolving, hist>>

\* a restore that does not look at dryRun
AfterVerify_NoDryRun(call, data) == [call EXCEPT !.pc = "safety", !.entities = data]

\* restoreFromBackup after the verification: the dry run returns the counts
\* of the backup's data, the restore goes on to its recovery backup
AfterVerify(call, data) ==
  IF call.dryRun
  THEN [call EXCEPT !.pc = "done", !.result = "valid", !.summary = [plants |-> Len(data)]]
  ELSE [call EXCEPT !.pc = "safety", !.entities = data]

\* restoreFromBackup(backupId, {overwriteExisting, dryRun}) up to the safety
\* backup: getBackup, verifyBackup, decompressData, the dry run's answer
RestoreFromBackup(backupId, overwriteExisting, dryRun) ==
  LET backup == FindBackup(bm.backups, backupId)
      call == [NoRestore EXCEPT !.id = backupId, !.dryRun = dryRun,
                                !.overwriteExisting = overwriteExisting]
      data == Parse(backup.data.text)
  IN
  /\ Quiet
  /\ bm.restoresLeft > 0
  /\ bm' = [bm EXCEPT
       !.restoresLeft = @ - 1,
       !.restore =
          IF backup = NoBackup
          THEN [call EXCEPT !.pc = "done", !.result = "notfound"]
          ELSE IF ~verifyBackup(backup)
          THEN [call EXCEPT !.pc = "done", !.result = "corrupted"]
          ELSE AfterVerify(call, data)]
  /\ UNCHANGED <<isOnline, syncInProgress, queue, conflicts, clock, nextId, callsLeft,
                 calls, drain, adverse, plants, dm, qe, probe, resolving, hist>>

\* the restore is at plant k of the backup, or returns its counts after the
\* last
AtEntity(call, k) ==
  IF k > Len(call.entities)
  THEN [call EXCEPT !.pc = "done", !.result = "restored", !.k = k]
  ELSE [call EXCEPT !.pc = "entity", !.k = k, !.base = Len(dm.ops)]

\* a restore that goes on without its recovery backup
AfterSafety_GoesOn(after) ==
  [after.bm EXCEPT !.restore = AtEntity([@ EXCEPT !.recoveryBackupId =
                                            after.bm.created.id], 1)]

\* restoreFromBackup after createBackup has returned the recovery backup, or
\* has thrown
AfterSafety(after) ==
  IF after.ok
  THEN [after.bm EXCEPT !.restore = AtEntity([@ EXCEPT !.recoveryBackupId =
                                                 after.bm.created.id], 1)]
  ELSE [after.bm EXCEPT !.restore.pc = "done", !.restore.result = "failed"]

\* the recovery backup of the restore: createBackup({manual: true}); when it
\* throws, the restore throws
RestoreSafety(outcome, tick) ==
  /\ bm.restore.pc = "safety"
  /\ outcome \in BackupOutcomes
  /\ tick \in {0, 1}
  /\ LET after == BackupCreated(bm, TRUE, outcome)
     IN  /\ dm' = after.dm
         /\ bm' = AfterSafety(after)
  /\ clock' = clock + tick
  /\ UNCHANGED <<isOnline, syncInProgress, queue, conflicts, nextId, callsLeft, calls,
                 drain, adverse, plants, qe, probe, resolving, hist>>

\* the plant restoreEntities is at, as the data it hands to the Data Manager
EntityData(call) ==
  LET entity == call.entities[call.k]
  IN  [id |-> entity.id, name |-> entity.name, createdAt |-> entity.createdAt,
       updatedAt |-> entity.updatedAt]

\* restoreEntities finds the plant stored and does not overwrite it
RestoreSkip ==
  LET call == bm.restore
      read == ReadPlant(dm, EntityData(call).id)
  IN
  /\ call.pc = "entity"
  /\ Len(dm.ops) = call.base
  /\ read.plant # NoPlant
  /\ ~call.overwriteExisting
  /\ dm' = read.dm
  /\ bm' = [bm EXCEPT !.restore = AtEntity([call EXCEPT !.skipped = @ + 1], call.k + 1)]
  /\ UNCHANGED <<isOnline, syncInProgress, queue, conflicts, clock, nextId, callsLeft,
                 calls, drain, adverse, plants, qe, probe, resolving, hist>>

\* restoreEntities hands the plant to updatePlant if it is stored, and to
\* createPlant if not
RestoreWrite ==
  LET call == bm.restore
  IN
  /\ call.pc = "entity"
  /\ Len(dm.ops) = call.base
  /\ IF ReadPlant(dm, EntityData(call).id).plant # NoPlant
     THEN call.overwriteExisting /\ UpdatePlant(EntityData(call).id, EntityData(call))
     ELSE CreatePlant(EntityData(call))

\* the call of the Data Manager has returned or thrown: restoreEntities
\* counts it and goes to the next plant
RestoreNext ==
  LET call == bm.restore
      o == call.base + 1
  IN
  /\ call.pc = "entity"
  /\ o \in Completed(dm)
  /\ Len(dm.ops) = o
  /\ bm' = [bm EXCEPT !.restore =
              AtEntity(IF dm.ops[o].result = "ok" THEN [call EXCEPT !.restored = @ + 1]
                       ELSE [call EXCEPT !.errors = @ + 1], call.k + 1)]
  /\ UNCHANGED <<isOnline, syncInProgress, queue, conflicts, clock, nextId, callsLeft,
                 calls, drain, adverse, plants, dm, qe, probe, resolving, hist>>

(***************************************************************************)
(* resolveConflict                                                         *)
(***************************************************************************)
\* conflicts.splice(index, 1)
RemoveAt(cs, index) ==
  [k \in 1..(Len(cs) - 1) |-> IF k < index THEN cs[k] ELSE cs[k + 1]]

\* conflict.localItem of a stored record; a record that is a sync item
\* (max_retries_exceeded) has none, and the spread of undefined adds nothing
LocalItemOf(record) ==
  IF record.shape = "conflict" THEN record.localItem ELSE NoItem

\* resolveConflict(conflictId, resolution) up to its request: index is what
\* findIndex answers for conflictId, 0 for an id no record has
ResolveConflict(index) ==
  /\ resolving.pc = "idle"
  /\ resolving.left > 0
  /\ index \in 0..Len(conflicts)
  /\ IF index = 0
     THEN \* throw new Error('Conflict not found')
          /\ resolving' = [resolving EXCEPT !.pc = "done", !.result = "notfound",
                                            !.read = conflicts, !.before = conflicts,
                                            !.left = @ - 1]
          /\ UNCHANGED clock
     ELSE LET resolvedItem == [LocalItemOf(conflicts[index]) EXCEPT
                                  !.data = "resolution", !.timestamp = clock]
          IN  /\ resolving' = [resolving EXCEPT
                                 !.pc = "inflight", !.index = index,
                                 !.read = conflicts, !.before = conflicts,
                                 !.left = @ - 1,
                                 !.ctx = [NoCall EXCEPT !.st = "inflight",
                                                        !.top = resolvedItem,
                                                        !.cur = resolvedItem]]
              /\ clock' = clock + 1
  /\ UNCHANGED <<isOnline, syncInProgress, queue, conflicts, nextId, callsLeft, calls,
                 drain, adverse, plants, dm, bm, qe, probe, hist>>

\* the array resolveConflict stores: the one it read at its start
Spliced(call, cs) == RemoveAt(call.read, call.index)

\* the answer to the request of the resolved item arrives: syncSingleItem
\* returns and resolveConflict goes on to its end
ResolveResponse(r) ==
  /\ resolving.pc = "inflight"
  /\ r \in Answers
  /\ LET res == HandleResponse(resolving.ctx, r, Store, clock)
         record == resolving.read[resolving.index]
         accepted == r.kind = "success" /\ resolving.ctx.stack = <<>>
     IN  /\ queue' = res.S.queue
         /\ hist' = res.S.hist
         /\ conflicts' = IF res.done /\ res.ok
                         THEN Spliced(resolving, res.S.conflicts)
                         ELSE res.S.conflicts
         /\ resolving' =
              [resolving EXCEPT
                 !.ctx = res.ctx,
                 !.accepted = accepted,
                 !.pc = IF res.done THEN "done" ELSE "inflight",
                 !.result =
                    IF ~res.done THEN "none"
                    ELSE IF ~res.ok THEN "failed"
                    \* conflict.localItem.entityType of a record without localItem
                    ELSE IF record.shape = "conflict" THEN "resolved" ELSE "failed"]
  /\ clock' = ClockAfter(r)
  /\ adverse' = AdverseAfter(r)
  /\ UNCHANGED <<isOnline, syncInProgress, nextId, callsLeft, calls, drain, plants, dm,
                 bm, qe, probe>>

(***************************************************************************)
(* query('plants', options), awaited while no other call of the Data       *)
(* Manager runs                                                            *)
(***************************************************************************)
Query(options) ==
  LET at == CachedAt(qe.cache, options)
      hit == options.useCache /\ at # 0
      got == ReadPlants(dm)
      result == IF hit THEN qe.cache[at].result ELSE QueryResult(got.plants, options)
  IN
  /\ qe.left > 0
  /\ Running = {}
  /\ qe' = [qe EXCEPT
              !.left = @ - 1,
              !.call = [pc |-> "done", options |-> options, hit |-> hit,
                        read |-> IF hit THEN <<>> ELSE got.plants, result |-> result],
              !.cache = IF options.useCache /\ ~hit
                        THEN SetQueryCache(@, options, result) ELSE @]
  /\ dm' = IF hit THEN dm
           ELSE IF SortsInPlace(options)
           THEN SetCacheAll(got.dm, Sorted(got.plants, options), 0)
           ELSE got.dm
  /\ UNCHANGED <<isOnline, syncInProgress, queue, conflicts, clock, nextId, callsLeft,
                 calls, drain, adverse, plants, bm, probe, resolving, hist>>

(***************************************************************************)
(* attemptAutoResolution and mergeConflictingData, called on a conflict    *)
(***************************************************************************)
AttemptAutoResolution ==
  /\ probe.pc = "conflict"
  /\ probe' = [probe EXCEPT !.pc = "resolved",
                            !.resolution = attemptAutoResolution(probe.conflict)]
  /\ UNCHANGED <<isOnline, syncInProgress, queue, conflicts, clock, nextId, callsLeft,
                 calls, drain, adverse, plants, dm, bm, qe, resolving, hist>>

MergeConflictingData ==
  /\ probe.pc = "data"
  /\ probe' = [probe EXCEPT !.pc = "merged",
                            !.merged = mergeConflictingFields(probe.localData,
                                                              probe.serverData)]
  /\ UNCHANGED <<isOnline, syncInProgress, queue, conflicts, clock, nextId, callsLeft,
                 calls, drain, adverse, plants, dm, bm, qe, resolving, hist>>

(***************************************************************************)
(* matchesFilter, called on the date of an event                           *)
(***************************************************************************)
MatchesFilter ==
  /\ probe.pc = "filter"
  /\ probe' = [probe EXCEPT !.pc = "matched",
                            !.matches = matchesFilter(probe.value, probe.filter)]
  /\ UNCHANGED <<isOnline, syncInProgress, queue, conflicts, clock, nextId, callsLeft,
                 calls, drain, adverse, plants, dm, bm, qe, resolving, hist>>

(***************************************************************************)
(* calculateRetryDelay, called for two retry counts                        *)
(***************************************************************************)
CalculateRetryDelay ==
  /\ probe.pc = "called"
  /\ probe' = [probe EXCEPT !.pc = "done",
                            !.da = calculateRetryDelay(probe.a),
                            !.db = calculateRetryDelay(probe.b)]
  /\ UNCHANGED <<isOnline, syncInProgress, queue, conflicts, clock, nextId, callsLeft,
                 calls, drain, adverse, plants, dm, bm, qe, resolving, hist>>

Next ==
  \/ \E t \in DOMAIN Triples : SyncData(t)
  \/ \E m \in DOMAIN calls, r \in Answers : CallResponse(m, r)
  \/ \E k \in 1..batchSize : DelayElapsed(k)
  \/ \E k \in 1..batchSize, r \in Answers : DrainResponse(k, r)
  \/ BatchSettled
  \/ OnlineEvent
  \/ OfflineEvent
  \/ AutoSyncTimer
  \/ ForceSyncNow

Spec == Init /\ [][Next]_vars

\* Every request is answered (the fetch of makeRequest ends, at the latest by
\* its 30 s abort), every timer fires, and the 5 minute interval keeps firing.
Fairness ==
  /\ WF_vars(\E m \in DOMAIN calls, r \in Answers : CallResponse(m, r))
  /\ WF_vars(\E k \in 1..batchSize : DelayElapsed(k))
  /\ WF_vars(\E k \in 1..batchSize, r \in Answers : DrainResponse(k, r))
  /\ WF_vars(BatchSettled)
  /\ WF_vars(AutoSyncTimer)

LiveSpec == Spec /\ Fairness

\* behaviours with enough syncData calls to fill the queue beyond its cap
InitCap ==
  /\ Constructed
  /\ NoStoreCalls
  /\ Aside
  /\ callsLeft = MaxCapMutations
  /\ adverse = MaxCapAdverse

SpecCap == InitCap /\ [][Next]_vars

\* the Data Manager beside a Sync Engine that is handed few mutations: plants
\* are created, in either storage mode
InitDM ==
  /\ Constructed
  /\ Aside
  /\ callsLeft = MaxPlantMutations
  /\ adverse = MaxPlantAdverse
  /\ plants = <<>>
  /\ \E useIndexedDB \in BOOLEAN : dm = Initialized(useIndexedDB, MaxPlants, 0, 1)

NextDM ==
  \/ \E data \in CreateInputs : CreatePlant(data)
  \/ \E o \in DOMAIN dm.ops : Continue(o, FALSE)
  \/ Next

SpecDM == InitDM /\ [][NextDM]_vars

\* a plant stored by an earlier session
StoredPlant(p) == [id |-> p, name |-> "basil", createdAt |-> 0, updatedAt |-> 0]

\* the Data Manager alone, over a storage that holds the plants of earlier
\* sessions, in either storage mode
InitStore ==
  /\ Constructed
  /\ Aside
  /\ callsLeft = 0
  /\ adverse = 0
  /\ \E n \in 0..MaxPlants :
        /\ plants = [p \in 1..n |-> StoredPlant(p)]
        /\ \E useIndexedDB \in BOOLEAN :
              dm = Initialized(useIndexedDB, MaxStoreCalls, MaxFaults, n + 1)

NextStore ==
  \/ \E data \in CreateInputs : CreatePlant(data)
  \/ \E id \in PlantIds, updates \in UpdateInputs : UpdatePlant(id, updates)
  \/ \E id \in PlantIds : DeletePlant(id)
  \/ \E useCache \in BOOLEAN : GetPlants(useCache)
  \/ \E callback \in {"returns", "throws"} : On(callback)
  \/ \E o \in DOMAIN dm.ops, fail \in BOOLEAN : Continue(o, fail)

SpecStore == InitStore /\ [][NextStore]_vars

\* the Backup Manager over a Data Manager that holds the plants of earlier
\* sessions: backups are made, damaged and restored, and between the calls
\* of the Backup Manager plants are renamed and deleted
\* the user changes a plant before the restore
UserCall == bm.restore.pc = "idle" /\ Running = {} /\ Len(dm.ops) < MaxBackupMutations

InitBackup ==
  /\ Constructed
  /\ isOnline
  /\ NoQueryCalls
  /\ NoProbe
  /\ resolving = NoResolve
  /\ callsLeft = 0
  /\ adverse = 0
  /\ \E n \in 0..MaxPlants :
        /\ plants = [p \in 1..n |-> StoredPlant(p)]
        /\ \E useIndexedDB \in BOOLEAN :
              dm = Initialized(useIndexedDB, MaxBackupMutations + MaxPlants, 0, n + 1)
  /\ bm = BackupManager(<<>>, 1, MaxSnapshots, MaxRestores, MaxDamage)

NextBackup ==
  \/ \E manual \in BOOLEAN, outcome \in BackupOutcomes : CreateBackup(manual, outcome, 1)
  \/ \E i \in DOMAIN bm.backups, how \in {"checksum", "data", "cut"} : Damage(i, how)
  \/ \E backupId \in 1..(MaxSnapshots + 1), overwriteExisting, dryRun \in BOOLEAN :
        RestoreFromBackup(backupId, overwriteExisting, dryRun)
  \/ \E outcome \in BackupOutcomes : RestoreSafety(outcome, 1)
  \/ RestoreSkip
  \/ RestoreWrite
  \/ RestoreNext
  \/ \E id \in PlantIds : UserCall /\ UpdatePlant(id, [NoData EXCEPT !.name = "mint"])
  \/ \E id \in PlantIds : UserCall /\ DeletePlant(id)
  \/ \E o \in DOMAIN dm.ops : Continue(o, FALSE)

SpecBackup == InitBackup /\ [][NextBackup]_vars

\* createBackup called again and again, by the user and by the timer, at
\* times that may be the same millisecond
InitRetention ==
  /\ Constructed
  /\ isOnline
  /\ NoQueryCalls
  /\ NoProbe
  /\ resolving = NoResolve
  /\ callsLeft = 0
  /\ adverse = 0
  /\ \E n \in 0..1 :
        /\ plants = [p \in 1..n |-> StoredPlant(p)]
        /\ \E useIndexedDB \in BOOLEAN : dm = Initialized(useIndexedDB, 0, 0, n + 1)
  /\ bm = BackupManager(<<>>, 1, MaxBackupCalls, 0, 0)

NextRetention ==
  \E manual \in BOOLEAN, outcome \in BackupOutcomes, tick \in {0, 1} :
     CreateBackup(manual, outcome, tick)

SpecRetention == InitRetention /\ [][NextRetention]_vars

(***************************************************************************)
(* restoreEntities('events', data.events, overwriteExisting): the events   *)
(* of a backup restored over the stored events.  restoreEntities treats    *)
(* 'posts' with the same code (getPost?., updatePost, createPost).         *)
(***************************************************************************)
NoEvent == [id |-> 0, date |-> 0, notes |-> "none"]

EventIds == 1..MaxEvents

EventIdsOf(E) == {E[i].id : i \in DOMAIN E}

\* events.sort((a, b) => new Date(a.date) - new Date(b.date)), a stable sort
RECURSIVE SortByDate(_)
SortByDate(E) ==
  IF Len(E) <= 1 THEN E
  ELSE LET rest == SortByDate(ButLast(E))
           x == E[Len(E)]
           k == Cardinality({i \in 1..Len(rest) : rest[i].date <= x.date})
       IN  SubSeq(rest, 1, k) \o <<x>> \o SubSeq(rest, k + 1, Len(rest))

\* dataManager.getEvent?.(id): the Data Manager defines getEvents,
\* getEventsByDateRange and getEventsByPlant and no getEvent, so the optional
\* call is not made and answers undefined
getEvent(D, id) == NoEvent

\* createEvent(eventData) awaited alone: createEntity keeps the id and the
\* fields of the data; IndexedDB's store.add fails on a stored key, the
\* localStorage mode pushes the event onto the sorted array and saves it
createEvent(D, eventData) ==
  IF D.useIndexedDB
  THEN IF eventData.id \in EventIdsOf(D.events)
       THEN [ok |-> FALSE, dm |-> D]
       ELSE [ok |-> TRUE,
             dm |-> emit(logAuditTrail([D EXCEPT !.events = Append(@, eventData)],
                                       eventData.id, "CREATE"),
                         "eventCreated", eventData.id, 0)]
  ELSE [ok |-> TRUE,
        dm |-> emit([D EXCEPT !.events = Append(SortByDate(@), eventData)],
                    "eventCreated", eventData.id, 0)]

\* updateEvent(id, updates) awaited alone: throws when the event is not
\* stored, else stores the event with the fields of updates
updateEvent(D, id, updates) ==
  IF id \notin EventIdsOf(D.events) THEN [ok |-> FALSE, dm |-> D]
  ELSE [ok |-> TRUE,
        dm |-> emit([D EXCEPT !.events =
                        [i \in DOMAIN @ |-> IF @[i].id = id THEN updates ELSE @[i]]],
                    "eventUpdated", id, 0)]

\* the restore is at event k of the backup, or returns its counts
AtEvent(call, k) ==
  IF k > Len(call.entities)
  THEN [call EXCEPT !.pc = "done", !.result = "restored", !.k = k]
  ELSE [call EXCEPT !.pc = "event", !.k = k]

\* restoreFromBackup comes to the events of the backup
RestoreEvents(overwriteExisting) ==
  /\ bm.restore.pc \in {"idle", "done"}
  /\ bm.restoresLeft > 0
  /\ bm' = [bm EXCEPT !.restoresLeft = @ - 1,
                      !.restore = AtEvent([NoRestore EXCEPT
                                             !.overwriteExisting = overwriteExisting,
                                             !.entities = probe.events], 1)]
  /\ UNCHANGED <<isOnline, syncInProgress, queue, conflicts, clock, nextId, callsLeft,
                 calls, drain, adverse, plants, dm, qe, probe, resolving, hist>>

\* one turn of the loop of restoreEntities
RestoreEvent ==
  LET call == bm.restore
      entity == call.entities[call.k]
      existing == getEvent(dm, entity.id)
      written == IF existing # NoEvent THEN updateEvent(dm, entity.id, entity)
                 ELSE createEvent(dm, entity)
  IN
  /\ call.pc = "event"
  /\ IF existing # NoEvent /\ ~call.overwriteExisting
     THEN /\ bm' = [bm EXCEPT !.restore = AtEvent([call EXCEPT !.skipped = @ + 1],
                                                  call.k + 1)]
          /\ dm' = dm
     ELSE /\ bm' = [bm EXCEPT !.restore =
                      AtEvent(IF written.ok THEN [call EXCEPT !.restored = @ + 1]
                              ELSE [call EXCEPT !.errors = @ + 1], call.k + 1)]
          /\ dm' = written.dm
  /\ UNCHANGED <<isOnline, syncInProgress, queue, conflicts, clock, nextId, callsLeft,
                 calls, drain, adverse, plants, qe, probe, resolving, hist>>

\* an event as the storage holds it and as the backup holds it: the user
\* has changed the notes and the date since the backup
StoredEvent(e) == [id |-> e, date |-> e, notes |-> "local"]

BackupEvent(e) == [id |-> e, date |-> 1, notes |-> "backup"]

\* the sequences of distinct ids
IdLists == {s \in UNION {[1..n -> EventIds] : n \in 0..MaxEvents} :
              \A i, j \in DOMAIN s : s[i] = s[j] => i = j}

InitEvents ==
  /\ Constructed
  /\ isOnline
  /\ NoQueryCalls
  /\ resolving = NoResolve
  /\ callsLeft = 0
  /\ adverse = 0
  /\ plants = <<>>
  /\ \E stored \in IdLists, useIndexedDB \in BOOLEAN :
        dm = [Initialized(useIndexedDB, 0, 0, 1) EXCEPT
                !.events = [i \in DOMAIN stored |-> StoredEvent(stored[i])]]
  /\ \E backed \in IdLists :
        probe = [pc |-> "backup", events |-> [i \in DOMAIN backed |-> BackupEvent(backed[i])]]
  /\ bm = BackupManager(<<>>, 1, 0, MaxEventRestores, 0)

NextEvents ==
  \/ \E overwriteExisting \in BOOLEAN : RestoreEvents(overwriteExisting)
  \/ RestoreEvent

SpecEvents == InitEvents /\ [][NextEvents]_vars

(***************************************************************************)
(* The sync service with a user who resolves stored conflicts.             *)
(***************************************************************************)
InitResolve ==
  /\ Constructed
  /\ NoStoreCalls
  /\ NoBackupCalls /\ NoQueryCalls /\ NoProbe
  /\ resolving = [NoResolve EXCEPT !.left = MaxResolves]
  /\ callsLeft = MaxResolveMutations
  /\ adverse = MaxResolveAdverse

NextResolve ==
  \/ Next
  \/ \E index \in 0..Len(conflicts) : ResolveConflict(index)
  \/ \E r \in Answers : ResolveResponse(r)

SpecResolve == InitResolve /\ [][NextResolve]_vars

(***************************************************************************)
(* calculateRetryDelay on every pair of retry counts up to MaxRetryCount.  *)
(***************************************************************************)
InitRetry ==
  /\ Constructed
  /\ NoStoreCalls
  /\ NoBackupCalls /\ NoQueryCalls
  /\ resolving = NoResolve
  /\ callsLeft = 0
  /\ adverse = 0
  /\ \E a \in 0..MaxRetryCount, b \in 0..MaxRetryCount :
        probe = [IdleProbe EXCEPT !.pc = "called", !.a = a, !.b = b]

NextRetry == CalculateRetryDelay

SpecRetry == InitRetry /\ [][NextRetry]_vars

(***************************************************************************)
(* Auto-resolution on every conflict of the bounds: the conflict types     *)
(* with timestamps up to MaxTime, and the data of a field conflict.        *)
(***************************************************************************)
ConflictTypes == AutoResolvable \cup {"version_conflict"}

\* the conflict handleConflict builds from the item and the answer
ConflictOf(conflictType, timestamp, updatedAt) ==
  [shape |-> "conflict", localItem |-> [NoItem EXCEPT !.data = "local",
                                                      !.timestamp = timestamp],
   serverData |-> ServerData(updatedAt), conflictType |-> conflictType,
   timestamp |-> 0, resolved |-> FALSE]

LocalData ==
  [notes : {"undefined", "local", "same"}, status : {"undefined", "local", "same"},
   name : {"undefined", "local", "same"}, image : {"local", "same"},
   updatedAt : -1..MaxTime]

ServerRecords ==
  [notes : {"undefined", "server", "same"}, status : {"undefined", "server", "same"},
   name : {"undefined", "server", "same"}, image : {"server", "same"},
   updatedAt : 0..MaxTime]

InitAuto ==
  /\ Constructed
  /\ isOnline
  /\ NoStoreCalls
  /\ NoBackupCalls /\ NoQueryCalls
  /\ resolving = NoResolve
  /\ callsLeft = 0
  /\ adverse = 0
  /\ \/ \E conflictType \in ConflictTypes, timestamp, updatedAt \in 0..MaxTime :
          probe = [pc |-> "conflict",
                   conflict |-> ConflictOf(conflictType, timestamp, updatedAt),
                   resolution |-> [resolved |-> FALSE, data |-> "none"]]
     \/ \E localData \in LocalData, serverData \in ServerRecords :
          probe = [pc |-> "data", localData |-> localData, serverData |-> serverData,
                   merged |-> serverData]

NextAuto ==
  \/ AttemptAutoResolution
  \/ MergeConflictingData

SpecAuto == InitAuto /\ [][NextAuto]_vars

(***************************************************************************)
(* matchesFilter on the filters the engine builds over a date: {date:      *)
(* {$gte, $lte}} of getEventsByDateRange and getUpcomingEvents, {date:     *)
(* {$lt}} of getOverdueEvents, and the other comparison operators.         *)
(***************************************************************************)
NoOperators ==
  [eq |-> NotGiven, ne |-> NotGiven, gt |-> NotGiven, gte |-> NotGiven,
   lt |-> NotGiven, lte |-> NotGiven]

DateFilters ==
  {[NoOperators EXCEPT !.gte = a, !.lte = b] : a, b \in NotGiven..MaxDate}
    \cup {[NoOperators EXCEPT !.gt = a, !.lt = b] : a, b \in NotGiven..MaxDate}
    \cup {[NoOperators EXCEPT !.eq = a] : a \in 0..MaxDate}
    \cup {[NoOperators EXCEPT !.ne = a] : a \in 0..MaxDate}

InitFilter ==
  /\ Constructed
  /\ isOnline
  /\ NoStoreCalls
  /\ NoBackupCalls /\ NoQueryCalls
  /\ resolving = NoResolve
  /\ callsLeft = 0
  /\ adverse = 0
  /\ \E value \in 0..MaxDate, filter \in DateFilters :
        probe = [pc |-> "filter", value |-> value, filter |-> filter, matches |-> FALSE]

NextFilter == MatchesFilter

SpecFilter == InitFilter /\ [][NextFilter]_vars

(***************************************************************************)
(* The Query Engine over a stored plants collection.                       *)
(***************************************************************************)
\* the plants of earlier sessions: two names, creation times that repeat
QueryPlant(p) ==
  [id |-> p, name |-> IF p % 3 = 0 THEN "mint" ELSE "basil",
   createdAt |-> (2 * p) % 5, updatedAt |-> p % 2]

InitQueries(maxItems, queries, reads) ==
  /\ Constructed
  /\ isOnline
  /\ NoBackupCalls /\ NoProbe
  /\ resolving = NoResolve
  /\ callsLeft = 0
  /\ adverse = 0
  /\ qe = QueryEngine(queries)
  /\ \E n \in 0..maxItems :
        /\ plants = [p \in 1..n |-> QueryPlant(p)]
        /\ \E useIndexedDB \in BOOLEAN : dm = Initialized(useIndexedDB, reads, 0, n + 1)

\* one query with a limit, over collections up to MaxItems plants
InitPage == InitQueries(MaxItems, 1, 0)

NextPage ==
  \E filter \in {"none", "basil"}, sort \in {"none", "desc"},
     limit \in 1..MaxLimit, offset \in 0..MaxItems :
     Query([DefaultOptions EXCEPT !.filter = filter, !.sort = sort,
                                  !.limit = limit, !.offset = offset])

SpecPage == InitPage /\ [][NextPage]_vars

\* queries of every option beside the callers of the Data Manager
QueryOptions ==
  [filter : {"none", "basil"}, search : {"none", "mint"}, sort : {"none", "asc", "desc"},
   limit : 0..MaxQueryLimit, offset : 0..MaxQueryOffset, aggregate : BOOLEAN,
   useCache : BOOLEAN]

InitQuery == InitQueries(MaxQueryPlants, MaxQueries, MaxQueryReads)

NextQuery ==
  \/ \E options \in QueryOptions : Query(options)
  \/ \E useCache \in BOOLEAN : GetPlants(useCache)
  \/ \E o \in DOMAIN dm.ops : Continue(o, FALSE)

SpecQuery == InitQuery /\ [][NextQuery]_vars

\* queries before and after a write of the Data Manager, all within
\* cacheTimeout
FreshOptions ==
  {[DefaultOptions EXCEPT !.filter = filter, !.aggregate = aggregate,
                          !.useCache = useCache] :
     filter \in {"none", "basil"}, aggregate \in BOOLEAN, useCache \in BOOLEAN}

InitFresh == InitQueries(MaxFreshPlants, MaxFreshQueries, MaxFreshWrites)

NextFresh ==
  \/ \E options \in FreshOptions : Query(options)
  \/ CreatePlant([NoData EXCEPT !.name = "basil"])
  \/ \E id \in PlantIds : UpdatePlant(id, [NoData EXCEPT !.name = "mint"])
  \/ \E id \in PlantIds : DeletePlant(id)
  \/ \E o \in DOMAIN dm.ops : Continue(o, FALSE)

SpecFresh == InitFresh /\ [][NextFresh]_vars

(***************************************************************************)
(* Properties                                                              *)
(***************************************************************************)
InQueue(m) == m \in Ids(queue)

\* the sync item a stored record is about
RecordItem(rec) == IF rec.shape = "conflict" THEN rec.localItem ELSE rec.item

\* the reason a stored record carries
RecordReason(rec) == IF "reason" \in DOMAIN rec THEN rec.reason ELSE "undefined"

HasConflictRecord(m) == \E i \in DOMAIN conflicts : RecordItem(conflicts[i]).id = m

ReturnedQueued(m) == m \in DOMAIN calls /\ calls[m].st = "queued"

\* every copy of a sync item the program holds
HeldItems ==
  {queue[i] : i \in DOMAIN queue}
    \cup {drain.mem[i] : i \in DOMAIN drain.mem}
    \cup {drain.slots[k].cur : k \in DOMAIN drain.slots}
    \cup {calls[m].top : m \in DOMAIN calls}
    \cup {calls[m].cur : m \in {n \in DOMAIN calls : calls[n].st = "inflight"}}

\* C1: a mutation for which syncData returned queued:true is in the persisted
\* queue unless it was delivered, has a record in conflict storage, was
\* evicted by the cap (or replaced by addToQueue's dedup of its triple), also
\* when it was enqueued in the middle of a drain.
C1_QueuedUntilRemoved ==
  \A m \in DOMAIN calls :
     ReturnedQueued(m) =>
       \/ InQueue(m)
       \/ m \in hist.delivered
       \/ HasConflictRecord(m)
       \/ m \in hist.evicted
       \/ m \in hist.superseded

\* C2: when a drain finishes, no item whose delivery the remote confirmed
\* during that drain is in the persisted queue, whatever its retryCount.
C2_ConfirmedLeavesQueue ==
  [][(syncInProgress /\ ~syncInProgress') =>
        \A m \in drain.synced : m \notin Ids(queue')]_vars

\* C3: once the operation has completed, an item whose field_conflict was
\* merged and whose merged re-send the remote accepted is neither in the sync
\* queue nor in conflict storage.
C3_MergedAcceptedLeavesNothing ==
  \A m \in hist.mergedAccepted :
     (calls[m].st # "inflight" /\ ~syncInProgress) =>
        ~InQueue(m) /\ ~HasConflictRecord(m)

\* C4: an item whose retryCount a failed attempt brought to maxRetries has a
\* record in conflict storage that carries the reason max_retries_exceeded.
C4_ExhaustedRecordedWithReason ==
  \A item \in HeldItems :
     item.retryCount >= maxRetries =>
        \E i \in DOMAIN conflicts :
           /\ RecordItem(conflicts[i]).id = item.id
           /\ RecordReason(conflicts[i]) = "max_retries_exceeded"

\* C5: when no drain is running, the persisted queue holds no item whose
\* retries are exhausted (so no later drain sends it again).
C5_ExhaustedLeavesQueue ==
  ~syncInProgress => \A i \in DOMAIN queue : queue[i].retryCount < maxRetries

\* C6: with the network unavailable, after createPlant has returned a
\* SyncQueueItem for the new plant is in the sync queue.
C6_CreatePlantHandsToSync ==
  [][(PlantIdsOf(plants') # PlantIdsOf(plants) /\ ~isOnline) =>
        \E i \in DOMAIN queue' :
           /\ queue'[i].entityType = "Plant"
           /\ queue'[i].dataId \in PlantIdsOf(plants') \ PlantIdsOf(plants)]_vars

\* the client stays online and the remote accepts every request from here on
StaysOnlineAndAccepts == isOnline /\ adverse = 0

\* C7: if the client stays online and the remote answers success to every
\* request, the sync queue eventually becomes empty and syncInProgress
\* returns to false.
C7_QueueDrains == StaysOnlineAndAccepts ~> (queue = <<>> /\ ~syncInProgress)

\* C8: the persisted queue holds at most one item per (entityType, data.id,
\* operation) triple, and of two mutations of one triple that were both
\* enqueued and neither delivered, the earlier one is not the one kept.
C8_OnePerTripleLatestKept ==
  /\ \A i, j \in DOMAIN queue : i # j => ~SameTriple(queue[i], queue[j])
  /\ \A a, b \in DOMAIN calls :
        ( /\ a < b
          /\ SameTriple(calls[a].top, calls[b].top)
          /\ ReturnedQueued(a) /\ ReturnedQueued(b)
          /\ a \notin hist.delivered /\ b \notin hist.delivered )
        => ~InQueue(a)

\* the place of sync id m in queue q (0 when it is not there)
Place(q, m) == IF m \in Ids(q) THEN CHOOSE i \in DOMAIN q : q[i].id = m ELSE 0

RequestsInFlight ==
  {calls[m].cur : m \in {n \in DOMAIN calls : calls[n].st = "inflight"}}
    \cup {drain.slots[k].cur : k \in {j \in DOMAIN drain.slots :
                                         drain.slots[j].st = "inflight"}}

C11_ImmediateIffOnlineAndIdle ==
  [][(nextId' # nextId) =>
        /\ (calls'[nextId].st = "inflight") <=> (isOnline /\ ~syncInProgress)
        /\ (isOnline /\ ~syncInProgress) =>
              /\ RequestsInFlight' = RequestsInFlight \cup {calls'[nextId].cur}
              /\ calls'[nextId].cur.id = nextId
              /\ queue' = queue
        /\ ~(isOnline /\ ~syncInProgress) =>
              /\ RequestsInFlight' = RequestsInFlight
              /\ calls'[nextId].st = "queued"
              /\ \E i \in DOMAIN queue' :
                    queue'[i].id = nextId /\ queue'[i].retryCount = 0]_vars

\* a call made online while a drain was running (the client was never offline
\* since the drain began) has its item in the queue and not in the drain
C11_Witness ==
  /\ isOnline /\ syncInProgress /\ adverse = MaxAdverse
  /\ \E m \in DOMAIN calls :
        /\ calls[m].st = "queued"
        /\ InQueue(m)
        /\ m \notin Ids(drain.mem)

\* C12: in a drain no request for an item has been issued while a queued item
\* of the same batch with an older timestamp still waits to be sent, whatever
\* the retry counts are.
C12_OldestTimestampFirst ==
  \A j, k \in DOMAIN drain.slots :
     ( /\ drain.slots[j].top.timestamp < drain.slots[k].top.timestamp
       /\ drain.slots[k].st # "wait" )
     => drain.slots[j].st # "wait"

\* a call of processSyncQueue that finds a drain running: the online event, or
\* forceSyncNow (the timer's callback tests syncInProgress itself)
TriggerWhileBusy ==
  /\ syncInProgress
  /\ (~isOnline /\ isOnline') \/ (hist'.busyTrigger # hist.busyTrigger)

\* C13: a trigger that arrives while a drain is running leaves the running
\* drain as it is (no second drain starts, no batch is restarted), sends no
\* request and leaves the persisted queue and the conflict storage untouched.
C13_OneDrainAtATime ==
  [][TriggerWhileBusy =>
        /\ drain' = drain
        /\ syncInProgress'
        /\ RequestsInFlight' = RequestsInFlight
        /\ queue' = queue
        /\ conflicts' = conflicts]_vars

\* a trigger found a drain running
C13_Witness == hist.busyTrigger

\* the plants a sequence holds
PlantsOf(P) == {P[i] : i \in DOMAIN P}

\* what getPlants() answers from this state on: the cached array if there is
\* one, else the stored collection
ServedPlants == IF dm.cache.all.has THEN dm.cache.all.data ELSE plants

\* the calls that changed, or may have changed, the plant of key id after
\* call u had completed
LaterWrites(u, id) ==
  {w \in Completed(dm) :
     /\ dm.ops[w].doneAt > dm.ops[u].doneAt
     /\ dm.ops[w].kind \in {"createPlant", "updatePlant", "deletePlant"}
     /\ id \in {dm.ops[w].id, dm.ops[w].entity.id}}

\* C14: once an updatePlant has completed, the stored collection (what an
\* uncached getPlants reads) and what a cached getPlants answers both hold
\* the patched plant, until a later write to that plant completes; a plant
\* that a deletePlant was called for is left aside.
C14_ReadsSeeCompletedUpdate ==
  \A u \in Completed(dm) :
     ( /\ dm.ops[u].kind = "updatePlant"
       /\ dm.ops[u].result = "ok"
       /\ \A w \in DOMAIN dm.ops :
             dm.ops[w].kind = "deletePlant" => dm.ops[w].id # dm.ops[u].entity.id
       /\ LaterWrites(u, dm.ops[u].entity.id) = {} )
     => /\ dm.ops[u].entity \in PlantsOf(plants)
        /\ dm.ops[u].entity \in PlantsOf(ServedPlants)

\* the call that takes the step, if a call of the Data Manager takes it
Acting ==
  IF Len(dm'.ops) > Len(dm.ops) THEN {Len(dm'.ops)}
  ELSE IF dm'.ops # dm.ops THEN {Head(dm.awaiting)}
  ELSE {}

\* the data of the call breaks PlantSchema: a plant needs a name
BreaksSchema(op) ==
  \/ op.kind = "createPlant" /\ op.data.name \in {"", "absent"}
  \/ op.kind = "updatePlant" /\ op.data.name = ""

Finishing == {o \in Acting : dm'.ops[o].pc = "done"}

\* C16: an updatePlant or deletePlant that ends while no stored plant has its
\* id ends with not found, and its last step leaves the stored plants and
\* the delivered events as they were.
C16_MissingIdIsNotFound ==
  [][\A o \in Finishing :
       ( /\ dm'.ops[o].kind \in {"updatePlant", "deletePlant"}
         /\ dm'.ops[o].id \notin PlantIdsOf(plants) )
       => /\ dm'.ops[o].result = "notfound"
          /\ plants' = plants
          /\ dm'.delivered = dm.delivered]_vars

\* C17: the last step of an updatePlant that ends well leaves the number of
\* stored plants and the set of their keys as they were, and the plant it
\* stores has the id and the createdAt of the plant it found.
C17_UpdateKeepsIdAndCreatedAt ==
  [][\A o \in Finishing :
       ( /\ dm'.ops[o].kind = "updatePlant"
         /\ dm'.ops[o].result = "ok" )
       => /\ Len(plants') = Len(plants)
          /\ PlantIdsOf(plants') = PlantIdsOf(plants)
          /\ dm'.ops[o].entity.id = dm'.ops[o].existing.id
          /\ dm'.ops[o].entity.createdAt = dm'.ops[o].existing.createdAt]_vars

\* C18: a createPlant that ends while a stored plant has the id of its plant
\* does not end well, and its last step leaves the stored plants as they were.
C18_DuplicateIdRefused ==
  [][\A o \in Finishing :
       ( /\ dm'.ops[o].kind = "createPlant"
         /\ dm'.ops[o].entity.id \in PlantIdsOf(plants) )
       => /\ dm'.ops[o].result # "ok"
          /\ plants' = plants]_vars

\* C19: the step in which a createPlant, updatePlant or deletePlant ends on a
\* refused write leaves the stored plants, and what getPlants() answers from
\* the cache, as they were.
C19_FailedWriteChangesNothing ==
  [][\A o \in Finishing :
       dm'.ops[o].result = "storage"
       => /\ plants' = plants
          /\ PlantsOf(ServedPlants') = PlantsOf(ServedPlants)]_vars

\* the event a mutation emits and the id it carries
EventOf(op) ==
  CASE op.kind = "createPlant" -> [event |-> "plantCreated", id |-> op.entity.id]
    [] op.kind = "updatePlant" -> [event |-> "plantUpdated", id |-> op.entity.id]
    [] op.kind = "deletePlant" -> [event |-> "plantDeleted", id |-> op.id]

\* the calls that end well as a mutation in the step
Mutated ==
  {o \in Finishing : /\ dm'.ops[o].kind \in {"createPlant", "updatePlant", "deletePlant"}
                     /\ dm'.ops[o].result = "ok"}

\* C20: the step in which a mutation ends well (its write is done in that
\* step, and the call returns with it) delivers the mutation's event once to
\* every registered listener, in the order of registration, whether or not a
\* listener throws; no other step delivers anything.
C20_EveryListenerOnce ==
  [][/\ \A o \in Mutated :
          dm'.delivered = dm.delivered \o
            [i \in 1..Len(dm.listeners) |->
               [listener |-> dm.listeners[i], event |-> EventOf(dm'.ops[o]).event,
                id |-> EventOf(dm'.ops[o]).id, op |-> o]]
     /\ Mutated = {} => dm'.delivered = dm.delivered]_vars

\* a mutation has ended well although the listener registered first threw,
\* and the listener registered after it has the event
C20_Witness ==
  \E o \in Completed(dm) :
     /\ dm.ops[o].result = "ok"
     /\ dm.ops[o].kind \in {"createPlant", "updatePlant", "deletePlant"}
     /\ \E i, j \in DOMAIN dm.delivered :
          /\ i < j
          /\ dm.delivered[i].op = o /\ dm.delivered[i].listener = "throws"
          /\ dm.delivered[j].op = o /\ dm.delivered[j].listener = "returns"

\* a restoreFromBackup is called in the step
RestoreCalled == bm'.restoresLeft < bm.restoresLeft

\* the stored backup the restore called in the step is about
Chosen == FindBackup(bm.backups, bm'.restore.id)

\* the backup has no checksum, or a text that is not the text its checksum
\* was made of
Mismatch(backup) ==
  \/ backup.checksum = NoChecksum
  \/ ~WellFormed(backup.data.text)
  \/ calculateChecksum(backup.data.text) # backup.checksum

\* the step changes neither the stored plants, nor the Data Manager, nor the
\* stored backups, and makes no backup
NothingTouched ==
  /\ plants' = plants
  /\ dm' = dm
  /\ bm'.backups = bm.backups
  /\ bm'.nextBackup = bm.nextBackup

\* C21: a restoreFromBackup of a stored backup whose checksum is missing or
\* is not the checksum of its data throws in its first step, which touches
\* nothing: no plant is restored and no recovery backup made.
C21_CorruptBackupNotRestored ==
  [][(RestoreCalled /\ Chosen # NoBackup /\ Mismatch(Chosen))
       => /\ bm'.restore.pc = "done"
          /\ bm'.restore.result = "corrupted"
          /\ bm'.restore.restored = 0
          /\ NothingTouched]_vars

\* a real restore (no dry run) of a damaged backup was refused while plants
\* are stored
C21_Witness ==
  /\ bm.restore.result = "corrupted"
  /\ ~bm.restore.dryRun
  /\ plants # <<>>
  /\ Mismatch(FindBackup(bm.backups, bm.restore.id))

\* C22: a dry run of a stored backup that verifies returns valid with the
\* number of plants of the backup, in a step that touches nothing.
C22_DryRunTouchesNothing ==
  [][(RestoreCalled /\ Chosen # NoBackup /\ ~Mismatch(Chosen) /\ bm'.restore.dryRun)
       => /\ bm'.restore.pc = "done"
          /\ bm'.restore.result = "valid"
          /\ bm'.restore.summary = [plants |-> Len(Parse(Chosen.data.text))]
          /\ NothingTouched]_vars

\* a dry run has answered for a backup that holds plants the storage no
\* longer holds as they were
C22_Witness ==
  /\ bm.restore.result = "valid"
  /\ bm.restore.summary.plants > 0
  /\ PlantsOf(Parse(FindBackup(bm.backups, bm.restore.id).data.text)) # PlantsOf(plants)

\* the recovery backup of the running restore, as it is stored
Recovery == FindBackup(bm.backups, bm.restore.recoveryBackupId)

\* C23: while a restore runs, a step that writes the stored plants finds the
\* restore's recovery backup stored, of type manual and verifiable, and at
\* the first write that backup holds the plants as they are stored; a
\* restore whose recovery backup could not be made has restored nothing.
C23_SafetyBackupFirst ==
  /\ [][(plants' # plants /\ bm.restore.pc # "idle")
          => /\ bm.restore.pc = "entity"
             /\ Recovery # NoBackup
             /\ Recovery.type = "manual"
             /\ verifyBackup(Recovery)
             /\ (bm.restore.restored + bm.restore.errors = 0
                   => PlantsOf(Parse(Recovery.data.text)) = PlantsOf(plants))]_vars
  /\ [](bm.restore.result = "failed"
          => bm.restore.restored = 0 /\ bm.restore.recoveryBackupId = 0)

\* a restore has written a plant
C23_Witness ==
  /\ bm.restore.result = "restored"
  /\ bm.restore.restored > 0
  /\ Recovery # NoBackup

\* the backups of a list
BackupsOf(B) == {B[i] : i \in DOMAIN B}

\* the backups saveBackup has stored in the step, before the cleanup: those
\* stored before and the one createBackup returns
Saved == BackupsOf(bm.backups) \cup {bm'.created}

\* the automatic backups of a set
Automatic(S) == {b \in S : b.type = "automatic"}

\* C24: a createBackup that returns a backup removes no manual backup and
\* adds no backup but its own; up to maxBackups saved backups all are kept;
\* beyond, the automatic backups kept are at most max(1, maxBackups less the
\* manual ones), none of them is older than a removed one, and one is kept
\* if there is one.
C24_ManualKeptNewestAutomaticKept ==
  [][bm'.created # NoBackup /\ bm'.created # bm.created =>
       LET Kept == BackupsOf(bm'.backups)
           manual == Cardinality({b \in Saved : b.type = "manual"})
       IN  /\ Kept \subseteq Saved
           /\ \A b \in Saved : b.type = "manual" => b \in Kept
           /\ Cardinality(Saved) <= maxBackups => Kept = Saved
           /\ Cardinality(Saved) > maxBackups =>
                /\ Cardinality(Automatic(Kept)) <= Max(1, maxBackups - manual)
                /\ \A a \in Automatic(Kept), e \in Automatic(Saved \ Kept) :
                     a.createdAt >= e.createdAt
                /\ Automatic(Saved) # {} => Automatic(Kept) # {}]_vars

\* the cleanup has removed a backup and the first backup, a manual one, is
\* still stored beside an automatic one
C24_Witness ==
  /\ bm.nextBackup - 1 > Len(bm.backups)
  /\ \E b \in BackupsOf(bm.backups) : b.id = 1 /\ b.type = "manual"
  /\ Automatic(BackupsOf(bm.backups)) # {}

(***************************************************************************)
(* resolveConflict                                                         *)
(***************************************************************************)
\* a step of the resolveConflict call
ResolveStep == resolving' # resolving

\* the call returned {success: true}; every other end of the call is a throw
Resolved(call) == call.pc = "done" /\ call.result = "resolved"

\* C25: resolveConflict removes the record if and only if the remote
\* accepted the re-sent resolved item; when the id is unknown or the re-send
\* fails the call throws and the record remains; the call adds no record to
\* the conflict storage and loses none.
C25_ResolveRemovesIffAccepted ==
  [][ResolveStep =>
       /\ Resolved(resolving') <=> resolving'.accepted
       /\ conflicts' = IF Resolved(resolving')
                       THEN RemoveAt(conflicts, resolving'.index)
                       ELSE conflicts]_vars

(***************************************************************************)
(* Retries                                                                 *)
(***************************************************************************)
\* the queued items processSyncQueue is about to send or has sent and not
\* yet heard of: the batch's own items, not the copies handleConflict made
Sending ==
  {drain.slots[k].cur : k \in {j \in DOMAIN drain.slots :
      drain.slots[j].st \in {"wait", "inflight"} /\ drain.slots[j].stack = <<>>}}

\* the items that wait for a retry or are in one
Retried ==
  {item \in Sending \cup {queue[i] : i \in DOMAIN queue} : item.retryCount > 0}

\* C26: a retry of a queued item sends the entityType, data.id, operation
\* and timestamp (and the data) of an earlier attempt, and a failed attempt
\* changes of the item only retryCount, by exactly +1: the item of every
\* retry is, but for a retryCount one less (and the processed mark of the
\* drain), an item a request carried before.
C26_RetryKeepsKey ==
  \A item \in Retried :
     [item EXCEPT !.retryCount = @ - 1, !.processed = FALSE] \in hist.attempted

\* a second retry is in flight
C26_Witness ==
  /\ C26_RetryKeepsKey
  /\ \E k \in DOMAIN drain.slots :
        /\ drain.slots[k].st = "inflight" /\ drain.slots[k].stack = <<>>
        /\ drain.slots[k].cur.retryCount = 2

(***************************************************************************)
(* Backoff                                                                 *)
(***************************************************************************)
\* retryDelay * 2^(retryCount - 1), the delay before the cap
Doubled(retryCount) == retryDelay * Pow2(retryCount - 1)

\* C27: calculateRetryDelay is 0 for retryCount 0 and for every retryCount
\* from 1 on the smaller of retryDelay * 2^(retryCount - 1) and 30000 ms
\* (1000, 2000, 4000 for 1, 2, 3); it is non-decreasing in retryCount and
\* never above 30000 ms.
C27_BackoffCappedMonotone ==
  probe.pc = "done" =>
    /\ probe.a = 0 => probe.da = 0
    /\ probe.a >= 1 =>
         /\ probe.da <= Doubled(probe.a) /\ probe.da <= 30000
         /\ probe.da \in {Doubled(probe.a), 30000}
    /\ probe.a = 1 => probe.da = 1000
    /\ probe.a = 2 => probe.da = 2000
    /\ probe.a = 3 => probe.da = 4000
    /\ probe.a <= probe.b => probe.da <= probe.db
    /\ probe.da <= 30000 /\ probe.db <= 30000

\* a count below the cap and one the cap cuts
C27_Witness ==
  /\ probe.pc = "done"
  /\ probe.a = 3 /\ probe.da = 4000
  /\ probe.b = 6 /\ probe.db = 30000

(***************************************************************************)
(* Query Engine                                                            *)
(***************************************************************************)
\* the item passes the filter and the search of the options
Passes(item, options) ==
  /\ options.filter # "none" => item.name = options.filter
  /\ options.search # "none" => item.name = options.search

\* the number of items of the collection the query read that pass
Matching(call) ==
  Cardinality({i \in DOMAIN call.read : Passes(call.read[i], call.options)})

\* a query that was computed, not answered from the cache of the engine
Computed(call) == call.pc = "done" /\ ~call.hit

\* C28: with a limit > 0 and an offset >= 0, totalCount is the number of
\* items left after filter and search, data.length is
\* min(limit, max(0, totalCount - offset)), hasMore is
\* offset + limit < totalCount and totalPages is ceil(totalCount / limit).
C28_PaginationCounts ==
  LET call == qe.call
      limit == call.options.limit
      offset == call.options.offset
      result == call.result
  IN  Computed(call) /\ limit > 0 =>
        /\ result.totalCount = Matching(call)
        /\ Len(result.data) = Min(limit, Max(0, result.totalCount - offset))
        /\ result.hasMore <=> offset + limit < result.totalCount
        /\ result.totalPages * limit >= result.totalCount
        /\ (result.totalPages - 1) * limit < result.totalCount

\* 25 items with limit 10 and offset 20 give 5, 25, false, 3
C28_Witness ==
  /\ Computed(qe.call)
  /\ Len(qe.call.read) = 25
  /\ qe.call.options.limit = 10 /\ qe.call.options.offset = 20
  /\ Len(qe.call.result.data) = 5
  /\ qe.call.result.totalCount = 25
  /\ ~qe.call.result.hasMore
  /\ qe.call.result.totalPages = 3

\* C29: the aggregations are computed over all items that pass filter and
\* search, before limit and offset are applied: the count of the ids is the
\* number of those items whatever the limit and the offset.
C29_AggregatesBeforePagination ==
  Computed(qe.call) /\ qe.call.options.aggregate =>
    /\ qe.call.result.aggregations.has
    /\ qe.call.result.aggregations.count = Matching(qe.call)

\* a step of a query
QueryStep == qe'.left < qe.left

\* C30: a query never writes Data Manager state: the stored collection and
\* the content and element order of the cached collections are after the
\* call what they were before it.
C30_QueryWritesNothing ==
  [][QueryStep =>
       /\ plants' = plants
       /\ dm'.cache.byId = dm.cache.byId
       /\ dm.cache.all.has => dm'.cache.all.data = dm.cache.all.data]_vars

(***************************************************************************)
(* Audit trail                                                             *)
(***************************************************************************)
\* the action logAuditTrail notes for a mutation
ActionOf(op) ==
  CASE op.kind = "createPlant" -> "CREATE"
    [] op.kind = "updatePlant" -> "UPDATE"
    [] op.kind = "deletePlant" -> "DELETE"

\* C31: every create, update and delete of the IndexedDB store that ends
\* well appends exactly one auditLog entry, with the entity id and the
\* action of the mutation.
C31_OneAuditEntryPerMutation ==
  [][\A o \in Mutated :
       dm.useIndexedDB =>
         dm'.auditLog = Append(dm.auditLog,
                               [entityId |-> EventOf(dm'.ops[o]).id,
                                action |-> ActionOf(dm'.ops[o])])]_vars

(***************************************************************************)
(* Auto-resolution                                                         *)
(***************************************************************************)
\* C32: for a timestamp_conflict auto-resolution chooses the local data when
\* the local item's timestamp is strictly newer than the server record's
\* updatedAt, and the server data otherwise, equal timestamps included.
C32_LastWriteWins ==
  (probe.pc = "resolved" /\ probe.conflict.conflictType = "timestamp_conflict") =>
    /\ probe.resolution.resolved
    /\ probe.conflict.localItem.timestamp > probe.conflict.serverData.updatedAt
         => probe.resolution.data = probe.conflict.localItem.data
    /\ probe.conflict.localItem.timestamp <= probe.conflict.serverData.updatedAt
         => probe.resolution.data = probe.conflict.serverData.payload

\* equal timestamps: the server data is chosen
C32_Witness ==
  /\ probe.pc = "resolved"
  /\ probe.conflict.conflictType = "timestamp_conflict"
  /\ probe.conflict.localItem.timestamp = probe.conflict.serverData.updatedAt
  /\ probe.resolution.data = "server"

\* C33: the merged payload of a field_conflict is the server record on every
\* field, except that notes, status and name take the local value whenever
\* it is defined and differs from the server's, and that updatedAt takes the
\* local value.
C33_MergeKeepsLocalFields ==
  probe.pc = "merged" =>
    /\ DOMAIN probe.merged = DOMAIN probe.serverData
    /\ \A f \in {"notes", "status", "name"} :
         /\ (probe.localData[f] # "undefined" /\ probe.localData[f] # probe.serverData[f])
              => probe.merged[f] = probe.localData[f]
         /\ (probe.localData[f] = "undefined" \/ probe.localData[f] = probe.serverData[f])
              => probe.merged[f] = probe.serverData[f]
    /\ probe.merged.image = probe.serverData.image
    /\ probe.merged.updatedAt = probe.localData.updatedAt

\* a merge with a local field taken, a local field that is not defined, a
\* field outside the list that differs, and a newer server updatedAt
C33_Witness ==
  /\ probe.pc = "merged"
  /\ probe.localData.notes = "local" /\ probe.merged.notes = "local"
  /\ probe.localData.status = "undefined" /\ probe.merged.status = "server"
  /\ probe.localData.image = "local" /\ probe.merged.image = "server"
  /\ probe.localData.updatedAt = 1 /\ probe.serverData.updatedAt = 2
  /\ probe.merged.updatedAt = 1

(***************************************************************************)
(* Filters                                                                 *)
(***************************************************************************)
\* the value satisfies every operator the filter gives
SatisfiesAll(value, filter) ==
  /\ filter.eq # NotGiven => value = filter.eq
  /\ filter.ne # NotGiven => value # filter.ne
  /\ filter.gt # NotGiven => value > filter.gt
  /\ filter.gte # NotGiven => value >= filter.gte
  /\ filter.lt # NotGiven => value < filter.lt
  /\ filter.lte # NotGiven => value <= filter.lte

\* C34: a filter that gives several operators for one field, such as
\* {$gte: start, $lte: end}, matches exactly the items that satisfy all of
\* the operators.
C34_AllOperatorsApply ==
  (probe.pc = "matched" /\ probe.filter # NoOperators) =>
    (probe.matches <=> SatisfiesAll(probe.value, probe.filter))

(***************************************************************************)
(* Restore of events                                                       *)
(***************************************************************************)
\* restoreEntities is at an event of the backup whose id is stored
AtStoredEvent ==
  /\ bm.restore.pc = "event"
  /\ bm.restore.entities[bm.restore.k].id \in EventIdsOf(dm.events)

\* C35: with overwriteExisting = false a restore leaves every entity whose
\* id is stored unchanged and counts it as skipped, for plants, events and
\* posts alike; here for the events: the turn of the loop at a stored event
\* changes no stored event, adds one to skipped and none to errors.
C35_StoredEventSkipped ==
  [][(AtStoredEvent /\ ~bm.restore.overwriteExisting) =>
       /\ dm'.events = dm.events
       /\ bm'.restore.skipped = bm.restore.skipped + 1
       /\ bm'.restore.errors = bm.restore.errors]_vars

\* C36: a query operates on a snapshot of the collection taken at call
\* time: after a write of the Data Manager has completed, a query with the
\* default useCache answers what the options give on the stored collection
\* as it is at the call.
C36_QueryReflectsWrites ==
  [][(QueryStep /\ qe'.call.options.useCache) =>
       qe'.call.result = QueryResult(ReadPlants(dm).plants, qe'.call.options)]_vars

\* calls a and b of updatePlant patch the same plant, a its name and b its
\* createdAt, both have returned, and the later called of the two was
\* called before the earlier had returned
OverlappingPatches(a, b) ==
  /\ a # b
  /\ Running = {}
  /\ \A o \in {a, b} : /\ dm.ops[o].kind = "updatePlant"
                       /\ dm.ops[o].result = "ok"
                       /\ dm.ops[o].id = dm.ops[a].id
  /\ dm.ops[a].data.name \notin {"absent", ""} /\ dm.ops[a].data.createdAt = -1
  /\ dm.ops[b].data.name = "absent" /\ dm.ops[b].data.createdAt # -1
  /\ \A o \in {a, b} : dm.ops[o].data.id = 0 /\ dm.ops[o].data.updatedAt = -1
  /\ IF a < b THEN dm.ops[b].calledAt < dm.ops[a].doneAt
     ELSE dm.ops[a].calledAt < dm.ops[b].doneAt

\* C37: two updatePlant calls on the same id that patch different fields
\* and overlap in time both take effect: the stored plant has both patches.
C37_BothPatchesStored ==
  \A a, b \in DOMAIN dm.ops :
     OverlappingPatches(a, b) =>
       /\ FindPlant(plants, dm.ops[a].id).name = dm.ops[a].data.name
       /\ FindPlant(plants, dm.ops[a].id).createdAt = dm.ops[b].data.createdAt

(***************************************************************************)
(* Recursion of handleConflict and syncSingleItem                          *)
(***************************************************************************)
\* the syncSingleItem calls that run: of syncData and of the drain's batch
Handling ==
  {calls[m] : m \in DOMAIN calls} \cup {drain.slots[k] : k \in DOMAIN drain.slots}

\* C38: handling one item terminates after a bounded number of requests,
\* even when the remote answers every re-sent payload with another
\* auto-resolvable conflict: the code has a bound of its own on the
\* handleConflict frames of one call, so that their number stays below the
\* number of conflicts the remote can answer.
C38_RecursionBounded == \A ctx \in Handling : Len(ctx.stack) < MaxAdverse

(***************************************************************************)
(* Conflict storage over the drain cycles                                  *)
(***************************************************************************)
\* the records of conflict storage that wait for a manual resolution of
\* mutation m: conflicts of a type that is not resolved automatically, and
\* the sync items whose retries are exhausted
ManualRecords(m) ==
  {i \in DOMAIN conflicts :
     /\ RecordItem(conflicts[i]).id = m
     /\ \/ conflicts[i].shape = "syncItem"
        \/ conflicts[i].conflictType \notin AutoResolvable}

\* C39: a mutation whose conflict could not be auto-resolved, or whose
\* retries are exhausted, has at most one record in conflict storage at any
\* time, however many drain cycles run before it is manually resolved.
C39_OneRecordPerMutation ==
  \A m \in 1..MaxMutations : Cardinality(ManualRecords(m)) <= 1

====
